---- MODULE Spec2Model ----
(***************************************************************************)
(* Script execution engine of csv-light-editor                             *)
(* (app/src-tauri/src/ai_script and the script commands of commands/ai.rs) *)
(*                                                                         *)
(* One slot s stands for one call of ScriptExecutor::execute_script: the   *)
(* caller's position is pc[s], the tokio task it spawns is task[s], and    *)
(* the python3 child of that task is child[s].  The Arc'd progress record  *)
(* and cancellation flag of the call live in progress[s] and cancelled[s]; *)
(* the registry maps an execution id to the slot whose Arcs it holds.      *)
(***************************************************************************)
EXTENDS Integers, Sequences, FiniteSets, TLC

\* ------------------------------------------------------------- bounds ----
MaxExec == 2            \* execute_script calls made in one run of the model
MaxLines == 3           \* stdout items of one child (single-run scenario)
MaxLinesConc == 1       \* stdout items of one child (concurrent scenario)
MaxLinesDecode == 2     \* lines a child writes in the decoding scenario
MaxStderr == 2          \* lines of a stderr text in the classification scenario
MaxScriptLen == 2       \* constructs of one program text
MaxStderrPlain == 6     \* lines of a stderr text without error names
PipeCap == 1            \* units an OS pipe holds before a write to it waits
EnvelopeLen == 2        \* units of the input envelope written to stdin
MaxProgram == 3         \* operations of a child's program
MaxCodeLen == 1         \* constructs of the code the generation service returns

Slots == {1, 2}         \* the callers that may be inside execute_script
Ids == 1..MaxExec       \* the ids Uuid::new_v4 hands out, in order

\* ------------------------------------------------------ deny list --------
DangerousPatterns ==
  << "import\\s+os", "from\\s+os\\s+import", "import\\s+shutil",
     "from\\s+shutil\\s+import", "open\\s*\\(", "file\\s*\\(",
     "import\\s+subprocess", "from\\s+subprocess\\s+import",
     "os\\.system\\s*\\(", "os\\.popen\\s*\\(", "os\\.exec\\s*\\(",
     "__import__\\s*\\(", "eval\\s*\\(", "exec\\s*\\(", "compile\\s*\\(",
     "import\\s+urllib", "import\\s+requests", "import\\s+http",
     "import\\s+socket", "from\\s+urllib\\s+import",
     "from\\s+requests\\s+import", "from\\s+http\\s+import",
     "from\\s+socket\\s+import", "import\\s+sys", "sys\\.exit\\s*\\(",
     "sys\\.modules", "import\\s+ctypes", "import\\s+multiprocessing",
     "\\.__getattr__\\s*\\(", "\\.__setattr__\\s*\\(" >>

\* A program text is a sequence of constructs.  RegexFinds(c) is the set of
\* deny-list regexes that find a match somewhere inside construct c (the
\* regexes are unanchored, so "os.popen(" is found by open\s*\( as well).
Constructs ==
  { "import pandas", "print(", "import os", "open(", "os.popen(", "eval(",
    "os.exec(" }

RegexFinds(c) ==
  CASE c = "import os" -> { "import\\s+os" }
    [] c = "open("     -> { "open\\s*\\(" }
    [] c = "os.popen(" -> { "open\\s*\\(", "os\\.popen\\s*\\(" }
    [] c = "eval("     -> { "eval\\s*\\(" }
    [] c = "os.exec("  -> { "os\\.exec\\s*\\(", "exec\\s*\\(" }
    [] c = "import sys" -> { "import\\s+sys" }
    [] OTHER           -> {}

is_match(pattern, text) ==
  \E i \in DOMAIN text : pattern \in RegexFinds(text[i])

\* ---------------------------------------------------------- values -------
Absent == "<absent>"     \* a JSON member that is missing or of another type

\* Option<Vec<_>> and a JSON array member, as [some, items].
NoneVec == [some |-> FALSE, items |-> << >>]
SomeVec(items) == [some |-> TRUE, items |-> items]

\* An error message: kind names the fixed text, detail is the sequence of
\* lines spliced into it (empty when the text has no detail).
Msg(kind, detail) == [kind |-> kind, detail |-> detail]
NoMsg == Msg("none", << >>)

\* ResultPayload (models.rs): one record shape for the three variants; the
\* members a variant does not have are "none" / NoneVec / << >>.
NoPayload ==
  [type |-> "none", summary |-> "none", details |-> "none",
   message |-> NoMsg, changes |-> NoneVec, unified_changes |-> NoneVec,
   preview |-> << >>]
Analysis(summary, details) ==
  [NoPayload EXCEPT !.type = "Analysis", !.summary = summary,
                    !.details = details]
Transformation(changes, unified, preview) ==
  [NoPayload EXCEPT !.type = "Transformation", !.changes = changes,
                    !.unified_changes = unified, !.preview = preview]
ErrorPayload(message) ==
  [NoPayload EXCEPT !.type = "Error", !.message = message]

Pending == [tag |-> "pending", msg |-> "none", detail |-> "none",
            execution_id |-> 0, result |-> NoPayload, error |-> "None"]
Err(m, d) == [tag |-> "err", msg |-> m, detail |-> d,
              execution_id |-> 0, result |-> NoPayload, error |-> "None"]
JoinError == [tag |-> "panic", msg |-> "JoinError", detail |-> "none",
              execution_id |-> 0, result |-> NoPayload, error |-> "None"]
ExecutionResult(id, p, e) ==
  [tag |-> "ok", msg |-> "none", detail |-> "none",
   execution_id |-> id, result |-> p, error |-> e]

\* ------------------------------------------------ protocol lines --------
\* One stdout line of the child.  json: the line parses as JSON.  type: the
\* string under "type" (Absent when missing or not a string).  processed,
\* total: the u64 under that key (-1 when missing or not a u64).  summary:
\* [kind, text] of the value under "summary".  changes, unified_changes,
\* preview: the array under that key (NoneVec when missing or not an array).
NoSummary == [kind |-> "absent", text |-> "none"]
RawLine ==
  [json |-> FALSE, type |-> Absent, processed |-> -1, total |-> -1,
   step |-> Absent, summary |-> NoSummary, details |-> Absent,
   message |-> Absent, changes |-> NoneVec, unified_changes |-> NoneVec,
   preview |-> NoneVec]
JsonLine(t) == [RawLine EXCEPT !.json = TRUE, !.type = t]
ProgressLine(p, t, step) ==
  [JsonLine("progress") EXCEPT !.processed = p, !.total = t, !.step = step]
AnalysisLine(kind, text, details) ==
  [JsonLine("analysis") EXCEPT !.summary = [kind |-> kind, text |-> text],
                               !.details = details]
TransformationLine(ch, un, pv) ==
  [JsonLine("transformation") EXCEPT !.changes = ch, !.unified_changes = un,
                                     !.preview = pv]
ErrorLine(m) == [JsonLine("error") EXCEPT !.message = m]

\* An item of "changes" / "preview": row, col are u64 (-1: missing or not a
\* u64), the others strings (Absent: missing or not a string).
ChangeItem(r, c, o, n) ==
  [row |-> r, col |-> c, column_name |-> Absent, old_value |-> o,
   new_value |-> n]
PreviewItem(r, c, name, o, n) ==
  [row |-> r, col |-> c, column_name |-> name, old_value |-> o,
   new_value |-> n]

\* SecurityValidator::validate_script: the first pattern of the list that
\* matches aborts with an error naming it.
\* a scan that goes on after a match and ends up naming the last pattern
\* of the list that matches
LastMatch(text, i) ==
  LET hit == { k \in i..Len(DangerousPatterns) :
                 is_match(DangerousPatterns[k], text) } IN
  IF hit = {} THEN 0 ELSE CHOOSE k \in hit : \A j \in hit : j <= k

RECURSIVE FirstMatch(_, _)
FirstMatch(text, i) ==
  IF i > Len(DangerousPatterns) THEN 0
  ELSE IF is_match(DangerousPatterns[i], text) THEN i
  ELSE FirstMatch(text, i + 1)

\* a validator whose list ends before the dynamic-evaluation patterns
validate_script_short(text) ==
  LET hit == { i \in 1..12 : is_match(DangerousPatterns[i], text) } IN
  IF hit = {} THEN [tag |-> "ok", msg |-> "none", detail |-> "none",
                    execution_id |-> 0, result |-> NoPayload, error |-> "None"]
  ELSE Err("Security validation failed: Dangerous operation detected",
           DangerousPatterns[CHOOSE i \in hit : \A j \in hit : i <= j])

validate_script(text) ==
  LET i == FirstMatch(text, 1) IN
  IF i = 0 THEN [tag |-> "ok", msg |-> "none", detail |-> "none",
                 execution_id |-> 0, result |-> NoPayload, error |-> "None"]
  ELSE Err("Security validation failed: Dangerous operation detected",
           DangerousPatterns[i])

\* ------------------------------------------------ ExecutionProgress -----
\* progress.rs.  The percentage is processed / total_rows * 100 in f64; the
\* row counts used here divide 100, so the integer quotient is exact.
\* started_at and last_updated are readings of Utc::now(), counted from the
\* reading taken by new: 0 is the time of creation, and every later reading
\* on the record is one tick after the one before.
NoProgress ==
  [execution_id |-> 0, processed_rows |-> 0, total_rows |-> 0,
   current_step |-> "none", progress_percentage |-> 0,
   estimated_remaining_seconds |-> "None", started_at |-> 0,
   last_updated |-> 0]

ExecutionProgress_new(id, total_rows) ==
  [execution_id |-> id, processed_rows |-> 0, total_rows |-> total_rows,
   current_step |-> "Initializing", progress_percentage |-> 0,
   estimated_remaining_seconds |-> "None", started_at |-> 0,
   last_updated |-> 0]

\* an update that stores the count and the step and keeps the percentage
update_stale(self, processed, step) ==
  [self EXCEPT !.processed_rows = processed, !.current_step = step]

\* an update that never lets the recorded count go down
update_monotonic(self, processed, step) ==
  LET m == IF processed > self.processed_rows THEN processed
           ELSE self.processed_rows
  IN [self EXCEPT !.processed_rows = m,
                  !.current_step = step,
                  !.progress_percentage =
                     IF self.total_rows > 0
                     THEN (m * 100) \div self.total_rows
                     ELSE 0]

\* an update that also restarts the clock of the record
update_restarts(self, processed, step) ==
  [self EXCEPT !.processed_rows = processed,
               !.current_step = step,
               !.progress_percentage =
                  IF self.total_rows > 0
                  THEN (processed * 100) \div self.total_rows
                  ELSE 0,
               !.started_at = self.last_updated + 1,
               !.last_updated = self.last_updated + 1]

update(self, processed, step) ==
  [self EXCEPT !.processed_rows = processed,
               !.current_step = step,
               !.progress_percentage =
                  IF self.total_rows > 0
                  THEN (processed * 100) \div self.total_rows
                  ELSE 0,
               !.last_updated = self.last_updated + 1]

\* ------------------------------------------------ result interpreter ----
\* serde_json::to_string_pretty of an object or array, and Value::to_string
\* of any other value, on the JSON texts used here.
to_string_pretty(text) ==
  CASE text = "{\"rows\":2}" -> "{\n  \"rows\": 2\n}"
    [] text = "[1,2]"        -> "[\n  1,\n  2\n]"
    [] OTHER                 -> text

ResOk(p) == [tag |-> "ok", payload |-> p, msg |-> "none"]
ResErr(m) == [tag |-> "err", payload |-> NoPayload, msg |-> m]

\* the filter_map closures of parse_result: an item lacking a member, or
\* with a member of the wrong type, is dropped
RECURSIVE DataChanges(_)
DataChanges(items) ==
  IF items = << >> THEN << >>
  ELSE LET it == Head(items) IN
       IF it.row >= 0 /\ it.col >= 0 /\ it.old_value # Absent
          /\ it.new_value # Absent
       THEN << [row_index |-> it.row, column_index |-> it.col,
                column_name |-> Absent,
                old_value |-> it.old_value, new_value |-> it.new_value] >>
            \o DataChanges(Tail(items))
       ELSE DataChanges(Tail(items))

RECURSIVE ChangePreviews(_)
ChangePreviews(items) ==
  IF items = << >> THEN << >>
  ELSE LET it == Head(items) IN
       IF it.row >= 0 /\ it.col >= 0 /\ it.column_name # Absent
          /\ it.old_value # Absent /\ it.new_value # Absent
       THEN << [row_index |-> it.row, column_index |-> it.col,
                column_name |-> it.column_name,
                old_value |-> it.old_value, new_value |-> it.new_value] >>
            \o ChangePreviews(Tail(items))
       ELSE ChangePreviews(Tail(items))

\* a decoder that keeps the summary of an analysis line and drops its
\* details
parse_result_no_details(line) ==
  IF line.json /\ line.type = "analysis"
  THEN ResOk(Analysis(IF line.summary.kind = "string"
                      THEN line.summary.text ELSE "Analysis completed",
                      "{}"))
  ELSE ResErr("Unknown result type")

parse_result(line) ==
  IF ~line.json THEN ResErr("Failed to parse result JSON")
  ELSE CASE line.type = "analysis" ->
              ResOk(Analysis(
                CASE line.summary.kind = "string" -> line.summary.text
                  [] line.summary.kind \in {"object", "array"} ->
                       to_string_pretty(line.summary.text)
                  [] line.summary.kind = "absent" -> "Analysis completed"
                  [] OTHER -> line.summary.text,
                IF line.details = Absent THEN "{}" ELSE line.details))
         [] line.type = "transformation" ->
              ResOk(Transformation(
                SomeVec(IF line.changes.some
                        THEN DataChanges(line.changes.items) ELSE << >>),
                NoneVec,
                IF line.preview.some
                THEN ChangePreviews(line.preview.items) ELSE << >>))
         [] line.type = "error" ->
              ResOk(ErrorPayload(
                Msg("raw", << IF line.message = Absent THEN "Unknown error"
                              ELSE line.message >>)))
         [] OTHER -> ResErr("Unknown result type")

\* a search predicate that takes every JSON line, progress events included
IsJsonLine(line) == line.json

\* the predicate of the result search: the line is JSON and its type is not
\* "progress"
IsResultCandidate(line) == line.json /\ line.type # "progress"

\* output_lines.iter().rev().find(..): index of the line found, 0 if none
RECURSIVE FindLastFrom(_, _)
FindLastFrom(lines, i) ==
  IF i = 0 THEN 0
  ELSE IF IsResultCandidate(lines[i]) THEN i
  ELSE FindLastFrom(lines, i - 1)

\* the search without .rev(): the first candidate instead of the last
find_first_result_line(lines) ==
  LET c == { i \in DOMAIN lines : IsResultCandidate(lines[i]) } IN
  IF c = {} THEN 0 ELSE CHOOSE i \in c : \A j \in c : i <= j

find_result_line(lines) == FindLastFrom(lines, Len(lines))

\* ------------------------------------------------ stderr classification -
\* The stderr lines used here, and what str::contains, str::starts_with and
\* str::trim answer on them.
StderrLines ==
  { "Traceback (most recent call last):",
    "  File \"script.py\", line 3",
    "IndentationError: unexpected indent",
    "IndentationError: unindent does not match",
    "SyntaxError: invalid syntax",
    "NameError: name 'x' is not defined",
    "TypeError: unsupported operand type(s)",
    "AttributeError: 'list' object has no attribute 'a'",
    "ValueError: invalid literal for int()",
    "ValueError: time data '1' does not match format '%Y'",
    "KeyError: 'col'",
    "    raise KeyError(name)",
    "IndexError: list index out of range",
    "Killed", "", "   " }

Markers(l) ==
  CASE l = "IndentationError: unexpected indent" ->
         { "IndentationError", "unexpected indent" }
    [] l = "IndentationError: unindent does not match" ->
         { "IndentationError" }
    [] l = "SyntaxError: invalid syntax" -> { "SyntaxError", "invalid syntax" }
    [] l = "NameError: name 'x' is not defined" ->
         { "NameError", "NameError:", "is not defined" }
    [] l = "TypeError: unsupported operand type(s)" ->
         { "TypeError", "unsupported operand" }
    [] l = "AttributeError: 'list' object has no attribute 'a'" ->
         { "AttributeError", "has no attribute" }
    [] l = "ValueError: invalid literal for int()" -> { "ValueError" }
    [] l = "ValueError: time data '1' does not match format '%Y'" ->
         { "ValueError", "time data", "does not match format" }
    [] l = "KeyError: 'col'" -> { "KeyError" }
    [] l = "    raise KeyError(name)" -> { "KeyError" }
    [] l = "IndexError: list index out of range" -> { "IndexError" }
    [] OTHER -> {}

contains(l, m) == m \in Markers(l)

starts_with(l, m) ==
  \/ m = "ValueError:" /\ l \in { "ValueError: invalid literal for int()",
                  "ValueError: time data '1' does not match format '%Y'" }
  \/ m = "KeyError:" /\ l = "KeyError: 'col'"
  \/ m = "IndexError:" /\ l = "IndexError: list index out of range"

trim(l) ==
  CASE l = "  File \"script.py\", line 3" -> "File \"script.py\", line 3"
    [] l = "    raise KeyError(name)" -> "raise KeyError(name)"
    [] l = "   " -> ""
    [] OTHER -> l

\* error_lines.iter().find(test): index of the first line passing, 0 if
\* none; passing is the set of indices whose line passes the test
find(lines, passing) ==
  IF passing = {} THEN 0
  ELSE CHOOSE i \in passing : \A j \in passing : i <= j

\* the body of the for loop of parse_python_error on one line: the message
\* returned, or NoMsg when no marker is in the line
ClassifyLine(line, error_lines) ==
  LET Detail(test(_)) ==
        find(error_lines, { i \in 1..Len(error_lines) : test(error_lines[i]) })
      D(i) == << trim(error_lines[i]) >>
      Pick(first, other) == IF first # 0 THEN D(first) ELSE D(other)
  IN
  IF contains(line, "IndentationError") THEN
    LET T(l) == contains(l, "unexpected indent")
                \/ contains(l, "expected an indented block")
        d == Detail(T)
    IN IF d # 0 THEN Msg("Python indentation error", D(d))
       ELSE Msg("Python indentation error", << >>)
  ELSE IF contains(line, "SyntaxError") THEN
    LET T(l) == contains(l, "invalid syntax")
        d == Detail(T)
    IN IF d # 0 THEN Msg("Python syntax error", D(d))
       ELSE Msg("Python syntax error", << >>)
  ELSE IF contains(line, "NameError") THEN
    LET T(l) == contains(l, "is not defined")
        U(l) == contains(l, "NameError:")
        d == Detail(T)
    IN IF d # 0 THEN Msg("Python name error", Pick(Detail(U), d))
       ELSE Msg("Python name error", << >>)
  ELSE IF contains(line, "TypeError") THEN
    LET T(l) == contains(l, "unsupported operand")
                \/ contains(l, "not supported")
        d == Detail(T)
    IN IF d # 0 THEN Msg("Python type error", D(d))
       ELSE Msg("Python type error", << >>)
  ELSE IF contains(line, "AttributeError") THEN
    LET T(l) == contains(l, "has no attribute")
        d == Detail(T)
    IN IF d # 0 THEN Msg("Python attribute error", D(d))
       ELSE Msg("Python attribute error", << >>)
  ELSE IF contains(line, "ValueError") THEN
    LET T(l) == contains(l, "time data")
                /\ contains(l, "does not match format")
        U(l) == contains(l, "ValueError")
        V(l) == starts_with(l, "ValueError:")
        t == Detail(T)
        d == Detail(U)
    IN IF t # 0 THEN Msg("Data format error", D(t))
       ELSE IF d # 0 THEN Msg("Data value error", Pick(Detail(V), d))
       ELSE Msg("Python value error", << >>)
  ELSE IF contains(line, "KeyError") THEN
    LET U(l) == contains(l, "KeyError")
        V(l) == starts_with(l, "KeyError:")
        d == Detail(U)
    IN IF d # 0 THEN Msg("Data key error", Pick(Detail(V), d))
       ELSE Msg("Python key error", << >>)
  ELSE IF contains(line, "IndexError") THEN
    LET U(l) == contains(l, "IndexError")
        V(l) == starts_with(l, "IndexError:")
        d == Detail(U)
    IN IF d # 0 THEN Msg("Data index error", Pick(Detail(V), d))
       ELSE Msg("Python index error", << >>)
  ELSE NoMsg

RECURSIVE ClassifyFrom(_, _)
ClassifyFrom(error_lines, i) ==
  IF i > Len(error_lines) THEN NoMsg
  ELSE LET m == ClassifyLine(error_lines[i], error_lines) IN
       IF m # NoMsg THEN m ELSE ClassifyFrom(error_lines, i + 1)

\* .take(5).map(trim).filter(non-empty) of the fallback summary
RECURSIVE Summary(_, _)
Summary(error_lines, i) ==
  IF i > Len(error_lines) \/ i > 5 THEN << >>
  ELSE (IF trim(error_lines[i]) # "" THEN << trim(error_lines[i]) >>
        ELSE << >>) \o Summary(error_lines, i + 1)

parse_python_error(stderr) ==
  LET m == ClassifyFrom(stderr, 1) IN
  IF m # NoMsg THEN m
  ELSE IF Summary(stderr, 1) = << >>
       THEN Msg("Script execution failed. Please check the generated script for errors.", << >>)
       ELSE Msg("Script execution failed:", Summary(stderr, 1))

\* ================================================================ state ==
VARIABLES
  scenario,       \* the scenario of this run (fixed): see Scenario
  calls,          \* execute_script calls made so far
  pc,             \* pc[s]: position of execute_script call s
  script,         \* script[s]: the Script passed to call s
  ret,            \* ret[s]: what call s returned
  execution_id,   \* execution_id[s]: the id minted by call s (0: none yet)
  minted,         \* ids handed out by Uuid::new_v4 so far
  exec,           \* exec[s]: the ActiveExecution call s took out of the map
  active_executions, \* the registry: id -> ActiveExecution
  progress,       \* progress[s]: the Arc<Mutex<ExecutionProgress>> of call s
  cancelled,      \* cancelled[s]: the Arc<Mutex<bool>> of call s
  temp_file,      \* temp_file[s]: "none", "exists" or "removed"
  task,           \* task[s]: position of the spawned execute_script_internal
  task_result,    \* task_result[s]: what the JoinHandle yields
  child,          \* child[s]: the python3 process of task s
  output_lines,   \* output_lines[s]: the lines the streaming loop pushed
  status,         \* status[s]: exit status child.wait() gave (-1: none yet)
  error_text,     \* error_text[s]: the stderr text read after a non-zero exit
  spawned,        \* spawned[s]: times a child was started for call s
  results,        \* results[s]: ExecutionResults built for call s
  registered,     \* registered[s]: call s has inserted its entry
  state_lock,     \* holder of the Mutex<ScriptExecutor> of state.rs (0: free)
  registry_guard, \* who holds the lock of active_executions
  progress_guard, \* progress_guard[s]: who holds the lock of progress[s]
  cancelled_guard, \* cancelled_guard[s]: who holds the lock of cancelled[s]
  client,         \* client[c]: a get_progress or cancel_execution call
  loop,           \* loop[s]: where the streaming loop of task s stands
  pipe,           \* pipe[s]: the bytes held by the three pipes of child s
  python,         \* python[s]: the program child s runs and where it stands
  emitted         \* emitted[s]: the "script-progress" events task s emitted

vars == << scenario, calls, pc, script, ret, execution_id, minted, exec,
           active_executions, progress, cancelled, temp_file, task,
           task_result, child, output_lines, status, error_text, spawned,
           results, registered, state_lock,
           registry_guard, progress_guard, cancelled_guard, client, loop,
           pipe, python, emitted >>

\* the state of the executor and of its tasks
execVars == << scenario, emitted, calls, pc, script, ret, execution_id, minted, exec,
               active_executions, progress, cancelled, temp_file, task,
               task_result, child, output_lines, status, error_text, spawned,
               results, registered, state_lock >>

\* who holds which lock, and the calls and loops that take them one by one
lockVars == << registry_guard, progress_guard, cancelled_guard, client, loop >>

\* the pipes between the runner and its children, and the children's programs
pipeVars == << pipe, python >>

callVars == << calls, pc, script, ret, execution_id, minted, exec, temp_file,
               registered >>
taskVars == << task, task_result, child, output_lines, status, error_text,
              spawned, results >>

NoExec == [handle |-> 0, progress |-> 0, cancelled |-> 0]
NoScript == [content |-> << >>, script_type |-> "none"]
NoStderr == << "<not read>" >>

\* the holder of a tokio Mutex: nobody, call s of execute_script, the task
\* spawned by call s, or client c (a get_progress or cancel_execution call)
Clients == { 1 }
Free == [kind |-> "free", n |-> 0]
Call(s) == [kind |-> "call", n |-> s]
Task(s) == [kind |-> "task", n |-> s]
Client(c) == [kind |-> "client", n |-> c]
Holders ==
  { Free } \cup { Call(s) : s \in Slots } \cup { Task(s) : s \in Slots }
    \cup { Client(c) : c \in Clients }

NoAnswer == [text |-> "none", value |-> NoProgress]
Idle == [op |-> "none", id |-> 0, at |-> "idle", answer |-> NoAnswer]
NoLine == [RawLine EXCEPT !.type = "<no line>"]
Reading == [at |-> "read", line |-> NoLine]

\* the pipes of a child that was not started, and no program
NoPipes == [stdin |-> 0, sent |-> 0, stdout |-> 0, stderr |-> 0]
NoPython == [code |-> << >>, at |-> 1, up |-> FALSE]

\* ------------------------------------------------------ scenarios --------
ReadError == [RawLine EXCEPT !.type = "<io error>"]

Benign == [content |-> << "print(" >>, script_type |-> "Analysis"]
Denied == [content |-> << "print(", "eval(" >>, script_type |-> "Analysis"]
Opens  == [content |-> << "os.popen(" >>, script_type |-> "Analysis"]

\* two callers inside execute_script at once; of the faults only the panic
ConcurrentScenario ==
  [slots    |-> Slots,
   lines    |-> { ProgressLine(1, 2, "half"),
                  AnalysisLine("string", "ok", "{}") },
   maxLines |-> MaxLinesConc,
   scripts  |-> { Benign, Denied },
   rows     |-> { 2 },
   stderrs  |-> { << "Killed" >> },
   files    |-> { "ok" },
   oks      |-> { TRUE },
   reads    |-> { },
   ios      |-> { "ok" },
   codes    |-> { 0, 1 },
   panics   |-> TRUE]

\* one caller; every fault and the whole line alphabet
RunLines ==
  { ProgressLine(1, 2, "half"), ProgressLine(2, 2, "done"),
    AnalysisLine("string", "ok", "{}"),
    ErrorLine("bad input"),
    JsonLine(Absent),
    RawLine }

RunScenario ==
  [slots    |-> { 1 },
   lines    |-> RunLines,
   maxLines |-> MaxLines,
   scripts  |-> { Benign, Denied, Opens },
   rows     |-> { 2 },
   stderrs  |-> { << "Killed" >> },
   files    |-> { "ok", "create-failed", "write-failed" },
   oks      |-> { TRUE, FALSE },
   reads    |-> { ReadError },
   ios      |-> { "ok", "wait", "stderr" },
   codes    |-> { 0, 1 },
   panics   |-> TRUE]

\* two callers going through the tauri commands
Edit == [content |-> << "print(" >>, script_type |-> "Transformation"]

EditDenied == [content |-> << "print(", "eval(" >>,
               script_type |-> "Transformation"]

CommandScenario ==
  [ConcurrentScenario EXCEPT
     !.scripts = { Benign, Denied, Edit, EditDenied }]

\* one caller whose child may stop writing
CancelScenario ==
  [ConcurrentScenario EXCEPT !.slots = { 1 }, !.scripts = { Benign }]

\* one caller whose child exits non-zero with any stderr text of up to
\* MaxStderr lines
StderrTexts == UNION { [1..n -> StderrLines] : n \in 0..MaxStderr }

ClassifyScenario == [CancelScenario EXCEPT !.stderrs = StderrTexts]

\* one caller over tables of 0, 2 and 4 rows; the child reports progress
\* in any order, also with a member missing
ProgressLines ==
  { ProgressLine(1, 2, "half"), ProgressLine(2, 2, "done"),
    ProgressLine(2, -1, "no total"),
    AnalysisLine("string", "ok", "{}") }

ProgressScenario ==
  [CancelScenario EXCEPT !.lines = ProgressLines, !.maxLines = MaxLines,
                         !.rows = { 0, 2, 4 }]

\* one caller whose child prints result lines of every shape
DecodeLines ==
  { ProgressLine(1, 2, "half"),
    AnalysisLine("string", "ok", "{}"),
    AnalysisLine("string", "2 rows", "{\"rows\":2}"),
    AnalysisLine("object", "{\"rows\":2}", Absent),
    AnalysisLine("absent", "none", "{}"),
    TransformationLine(SomeVec(<< ChangeItem(0, 1, "a", "b") >>), NoneVec,
                       SomeVec(<< PreviewItem(0, 1, "name", "a", "b") >>)),
    TransformationLine(NoneVec, SomeVec(<< ChangeItem(0, 1, "a", "b") >>),
                       SomeVec(<< PreviewItem(0, 1, "name", "a", "b") >>)),
    TransformationLine(SomeVec(<< >>), NoneVec, SomeVec(<< >>)),
    ErrorLine("bad input") }

DecodeScenario ==
  [CancelScenario EXCEPT !.lines = DecodeLines, !.maxLines = MaxLinesDecode]

\* one caller submitting any program text of up to MaxScriptLen constructs
ScriptTexts == UNION { [1..n -> Constructs] : n \in 0..MaxScriptLen }

ValidateScenario ==
  [CancelScenario EXCEPT
     !.scripts = { [content |-> c, script_type |-> "Analysis"] :
                     c \in ScriptTexts }]

\* one caller whose child exits non-zero with a stderr text of up to
\* MaxStderrPlain lines, none of which holds an error name
PlainLines == { "", "   ", "Killed" }
PlainTexts == UNION { [1..n -> PlainLines] : n \in 0..MaxStderrPlain }

FallbackScenario == [CancelScenario EXCEPT !.stderrs = PlainTexts]

\* two callers, their tasks and the clients, every lock taken and given
\* back in a step of its own; no fault
LockScenario ==
  [ConcurrentScenario EXCEPT !.scripts = { Benign }, !.codes = { 0 },
                             !.panics = FALSE]

\* one caller whose child prints progress lines with a member missing or of
\* the wrong type: no processed, no total, no step
PartialLines ==
  { ProgressLine(1, 2, "half"),
    ProgressLine(-1, 2, "no count"),
    ProgressLine(2, -1, "no total"),
    ProgressLine(2, 2, Absent),
    AnalysisLine("string", "ok", "{}") }

PartialScenario ==
  [CancelScenario EXCEPT !.lines = PartialLines, !.maxLines = MaxLines]

Scenario(name) ==
  CASE name = "concurrent" -> ConcurrentScenario
    [] name = "run"        -> RunScenario
    [] name = "command"    -> CommandScenario
    [] name = "cancel"     -> CancelScenario
    [] name = "classify"   -> ClassifyScenario
    [] name = "progress"   -> ProgressScenario
    [] name = "decode"     -> DecodeScenario
    [] name = "validate"   -> ValidateScenario
    [] name = "fallback"   -> FallbackScenario
    [] name = "locks"      -> LockScenario
    [] name = "pipes"      -> CancelScenario
    [] name = "generated"  -> CancelScenario
    [] name = "partial"    -> PartialScenario

\* what the environment may do in the scenario of this run
scen == Scenario(scenario)

TypeOK ==
  /\ pc \in [Slots -> {"idle", "insert", "remove", "await", "returned"}]
  /\ task \in [Slots -> {"none", "spawned", "stdin", "streaming", "finished"}]
  /\ child \in [Slots -> {"none", "running", "looping", "exited", "killed"}]
  /\ temp_file \in [Slots -> {"none", "exists", "removed"}]
  /\ cancelled \in [Slots -> BOOLEAN]
  /\ minted \in 0..MaxExec
  /\ calls \in 0..MaxExec
  /\ state_lock \in {0} \cup Slots
  /\ DOMAIN active_executions \subseteq Ids
  /\ registry_guard \in Holders
  /\ progress_guard \in [Slots -> Holders]
  /\ cancelled_guard \in [Slots -> Holders]
  /\ \A c \in Clients :
       /\ client[c].op \in {"none", "get_progress", "cancel_execution"}
       /\ client[c].at \in {"idle", "registry", "entry"}
       /\ client[c].id \in {0} \cup Ids
  /\ \A s \in Slots :
       loop[s].at \in {"read", "check", "flag", "update", "updating"}

InitWith(name) ==
  /\ scenario = name
  /\ calls = 0
  /\ pc = [s \in Slots |-> "idle"]
  /\ script = [s \in Slots |-> NoScript]
  /\ ret = [s \in Slots |-> Pending]
  /\ execution_id = [s \in Slots |-> 0]
  /\ minted = 0
  /\ exec = [s \in Slots |-> NoExec]
  /\ active_executions = << >>
  /\ progress = [s \in Slots |-> NoProgress]
  /\ cancelled = [s \in Slots |-> FALSE]
  /\ temp_file = [s \in Slots |-> "none"]
  /\ task = [s \in Slots |-> "none"]
  /\ task_result = [s \in Slots |-> Pending]
  /\ child = [s \in Slots |-> "none"]
  /\ output_lines = [s \in Slots |-> << >>]
  /\ status = [s \in Slots |-> -1]
  /\ error_text = [s \in Slots |-> NoStderr]
  /\ spawned = [s \in Slots |-> 0]
  /\ results = [s \in Slots |-> 0]
  /\ registered = [s \in Slots |-> FALSE]
  /\ state_lock = 0
  /\ registry_guard = Free
  /\ progress_guard = [s \in Slots |-> Free]
  /\ cancelled_guard = [s \in Slots |-> Free]
  /\ client = [c \in Clients |-> Idle]
  /\ loop = [s \in Slots |-> Reading]
  /\ emitted = [s \in Slots |-> << >>]
  /\ pipe = [s \in Slots |-> NoPipes]
  /\ python = [s \in Slots |-> NoPython]

Init == InitWith("concurrent")
InitRun == InitWith("run")

\* the Mutex<ScriptExecutor> is released when the command that holds it
\* returns (the guard of commands/ai.rs:465 goes out of scope)
Release(s) == state_lock' = IF state_lock = s THEN 0 ELSE state_lock

\* ------------------------------------------- ScriptExecutor::execute_script
\* lines 37-94: validation, id, progress record, temporary file, flag and
\* tokio::spawn run without an await.  file is what create_temp_script
\* does: "ok", "create-failed" (File::create fails) or "write-failed" (the
\* file exists and write_all or flush fails).
Enter(s, sc, rows, file) ==
  /\ pc[s] \in {"idle", "returned"}
  /\ s \in scen.slots
  /\ calls < MaxExec
  /\ calls' = calls + 1
  /\ script' = [script EXCEPT ![s] = sc]
  /\ exec' = [exec EXCEPT ![s] = NoExec]
  /\ registered' = [registered EXCEPT ![s] = FALSE]
  /\ task_result' = [task_result EXCEPT ![s] = Pending]
  /\ child' = [child EXCEPT ![s] = "none"]
  /\ output_lines' = [output_lines EXCEPT ![s] = << >>]
  /\ emitted' = [emitted EXCEPT ![s] = << >>]
  /\ status' = [status EXCEPT ![s] = -1]
  /\ error_text' = [error_text EXCEPT ![s] = NoStderr]
  /\ spawned' = [spawned EXCEPT ![s] = 0]
  /\ results' = [results EXCEPT ![s] = 0]
  /\ LET v == validate_script(sc.content)
         id == minted + 1
     IN
     IF v.tag = "err"
     THEN /\ ret' = [ret EXCEPT ![s] = v]
          /\ pc' = [pc EXCEPT ![s] = "returned"]
          /\ execution_id' = [execution_id EXCEPT ![s] = 0]
          /\ progress' = [progress EXCEPT ![s] = NoProgress]
          /\ cancelled' = [cancelled EXCEPT ![s] = FALSE]
          /\ temp_file' = [temp_file EXCEPT ![s] = "none"]
          /\ task' = [task EXCEPT ![s] = "none"]
          /\ UNCHANGED minted
     ELSE /\ minted' = id
          /\ execution_id' = [execution_id EXCEPT ![s] = id]
          /\ IF file = "ok"
             THEN /\ progress' = [progress EXCEPT
                                    ![s] = ExecutionProgress_new(id, rows)]
                  /\ temp_file' = [temp_file EXCEPT ![s] = "exists"]
                  /\ cancelled' = [cancelled EXCEPT ![s] = FALSE]
                  /\ task' = [task EXCEPT ![s] = "spawned"]
                  /\ pc' = [pc EXCEPT ![s] = "insert"]
                  /\ ret' = [ret EXCEPT ![s] = Pending]
             ELSE /\ temp_file' = [temp_file EXCEPT ![s] =
                        IF file = "write-failed" THEN "exists" ELSE "none"]
                  /\ progress' = [progress EXCEPT ![s] = NoProgress]
                  /\ cancelled' = [cancelled EXCEPT ![s] = FALSE]
                  /\ task' = [task EXCEPT ![s] = "none"]
                  /\ ret' = [ret EXCEPT ![s] = Err("io", file)]
                  /\ pc' = [pc EXCEPT ![s] = "returned"]
  /\ UNCHANGED << scenario, pipeVars, lockVars, active_executions >>

execute_script(s, sc, rows, file) ==
  /\ Enter(s, sc, rows, file)
  /\ UNCHANGED state_lock

\* an insert that stores the Arcs of the first caller in every entry
InsertExecution_shared(s) ==
  /\ pc[s] = "insert"
  /\ active_executions' =
       [k \in DOMAIN active_executions \cup { execution_id[s] } |->
          IF k = execution_id[s]
          THEN [handle |-> s, progress |-> 1, cancelled |-> 1]
          ELSE active_executions[k]]
  /\ registered' = [registered EXCEPT ![s] = TRUE]
  /\ pc' = [pc EXCEPT ![s] = "remove"]
  /\ UNCHANGED << scenario, emitted, pipeVars, lockVars, calls, script, ret, execution_id, minted, exec,
                  progress, cancelled, temp_file, taskVars, state_lock >>

\* lines 104-107: insert under the registry lock
InsertExecution(s) ==
  /\ pc[s] = "insert"
  /\ active_executions' =
       [k \in DOMAIN active_executions \cup { execution_id[s] } |->
          IF k = execution_id[s]
          THEN [handle |-> s, progress |-> s, cancelled |-> s]
          ELSE active_executions[k]]
  /\ registered' = [registered EXCEPT ![s] = TRUE]
  /\ pc' = [pc EXCEPT ![s] = "remove"]
  /\ UNCHANGED << scenario, emitted, pipeVars, lockVars, calls, script, ret, execution_id, minted, exec, progress,
                  cancelled, temp_file, taskVars, state_lock >>

\* a lookup with get() where the code has remove(): the entry stays
RemoveExecution_keep(s) ==
  /\ pc[s] = "remove"
  /\ execution_id[s] \in DOMAIN active_executions
  /\ exec' = [exec EXCEPT ![s] = active_executions[execution_id[s]]]
  /\ pc' = [pc EXCEPT ![s] = "await"]
  /\ UNCHANGED << scenario, emitted, pipeVars, lockVars, calls, script, ret, execution_id, minted,
                  active_executions, progress, cancelled, temp_file,
                  taskVars, registered, state_lock >>

\* lines 111-114 and 126-129: remove under the registry lock
RemoveExecution(s) ==
  /\ pc[s] = "remove"
  /\ IF execution_id[s] \in DOMAIN active_executions
     THEN /\ exec' = [exec EXCEPT ![s] = active_executions[execution_id[s]]]
          /\ active_executions' =
               [k \in DOMAIN active_executions \ { execution_id[s] } |->
                  active_executions[k]]
          /\ pc' = [pc EXCEPT ![s] = "await"]
          /\ UNCHANGED << ret, state_lock >>
     ELSE /\ ret' = [ret EXCEPT ![s] = Err("Execution not found", "none")]
          /\ pc' = [pc EXCEPT ![s] = "returned"]
          /\ Release(s)
          /\ UNCHANGED << exec, active_executions >>
  /\ UNCHANGED << scenario, emitted, pipeVars, lockVars, calls, script, execution_id, minted, progress, cancelled,
                  temp_file, taskVars, registered >>

\* lines 116-138: exec.handle.await, then the cleanup and the return
AwaitTask(s) ==
  /\ pc[s] = "await"
  /\ task[exec[s].handle] = "finished"
  /\ LET r == task_result[exec[s].handle] IN
     IF r.tag = "panic"
     THEN /\ ret' = [ret EXCEPT ![s] = Err("Task execution failed", r.msg)]
          /\ UNCHANGED temp_file
     ELSE /\ ret' = [ret EXCEPT ![s] = r]
          /\ temp_file' = [temp_file EXCEPT ![s] = "removed"]
  /\ pc' = [pc EXCEPT ![s] = "returned"]
  /\ Release(s)
  /\ UNCHANGED << scenario, emitted, pipeVars, lockVars, calls, script, execution_id, minted, exec,
                  active_executions, progress, cancelled, taskVars,
                  registered >>

\* ------------------------------- ScriptExecutor::execute_script_internal
Finish(s, r) ==
  /\ task' = [task EXCEPT ![s] = "finished"]
  /\ task_result' = [task_result EXCEPT ![s] = r]

\* lines 149-168: Command::spawn of python3
StartProcess(s, ok) ==
  /\ task[s] = "spawned"
  /\ IF ok
     THEN /\ child' = [child EXCEPT ![s] = "running"]
          /\ spawned' = [spawned EXCEPT ![s] = @ + 1]
          /\ task' = [task EXCEPT ![s] = "stdin"]
          /\ UNCHANGED task_result
     ELSE /\ Finish(s, Err("Failed to start Python process", "none"))
          /\ UNCHANGED << child, spawned >>
  /\ UNCHANGED << scenario, emitted, pipeVars, lockVars, callVars, active_executions, progress, cancelled,
                  output_lines, status, error_text, results, state_lock >>

\* a runner that starts over when the write to stdin fails
WriteStdin_retry(s, ok) ==
  /\ task[s] = "stdin"
  /\ task' = [task EXCEPT ![s] = IF ok THEN "streaming" ELSE "spawned"]
  /\ UNCHANGED << scenario, emitted, pipeVars, lockVars, callVars, active_executions, progress, cancelled,
                  task_result, child, output_lines, status, error_text, spawned,
                  results,
                  state_lock >>

\* lines 170-209: the envelope is written to the child's stdin
WriteStdin(s, ok) ==
  /\ task[s] = "stdin"
  /\ IF ok
     THEN /\ task' = [task EXCEPT ![s] = "streaming"]
          /\ UNCHANGED task_result
     ELSE Finish(s, Err("io", "stdin"))
  /\ UNCHANGED << scenario, emitted, pipeVars, lockVars, callVars, active_executions, progress, cancelled,
                  child, output_lines, status, error_text, spawned,
                  results,
                  state_lock >>

\* executor.rs 234-242: the line is a progress event with its three members
IsProgressEvent(item) ==
  /\ item.json /\ item.type = "progress"
  /\ item.processed >= 0 /\ item.total >= 0
  /\ item.step # Absent

\* executor.rs 246-260: the payload of the "script-progress" event, sent
\* while the guard of the record is held; the window is always there
\* (commands/ai.rs 468 passes Some(window))
ProgressEvent(id, item, record) ==
  [executionId |-> id, processedRows |-> item.processed,
   totalRows |-> item.total, currentStep |-> item.step,
   progressPercentage |-> record.progress_percentage,
   startedAt |-> record.started_at, lastUpdated |-> record.last_updated]

\* a loop that reports every progress line to the window, whatever it holds
emit_any(em, id, item, record) ==
  IF item.json /\ item.type = "progress"
  THEN Append(em, ProgressEvent(id, item, record))
  ELSE em

\* executor.rs 240-262: what the window has been sent once item is handled;
\* record is the progress record after the update
emit(em, id, item, record) ==
  IF IsProgressEvent(item)
  THEN Append(em, ProgressEvent(id, item, record))
  ELSE em

\* a loop that notes a failed read and goes on with the next line
ReadLine_keep_reading(s, item) ==
  /\ task[s] = "streaming"
  /\ child[s] = "running"
  /\ Len(output_lines[s]) < scen.maxLines
  /\ IF cancelled[s]
     THEN /\ child' = [child EXCEPT ![s] = "killed"]
          /\ Finish(s, Err("Execution cancelled", "none"))
          /\ UNCHANGED << output_lines, progress, emitted >>
     ELSE IF item = ReadError
     THEN /\ task_result' = [task_result EXCEPT ![s] = Err("io", "stdout")]
          /\ UNCHANGED << child, task, output_lines, progress, emitted >>
     ELSE /\ output_lines' = [output_lines EXCEPT ![s] = Append(@, item)]
          /\ progress' =
               IF /\ item.json /\ item.type = "progress"
                  /\ item.processed >= 0 /\ item.total >= 0
                  /\ item.step # Absent
               THEN [progress EXCEPT
                       ![s] = update(@, item.processed, item.step)]
               ELSE progress
          /\ emitted' = [emitted EXCEPT
                           ![s] = emit(@, execution_id[s], item,
                                       progress'[s])]
          /\ UNCHANGED << child, task, task_result >>
  /\ UNCHANGED << scenario, pipeVars, lockVars, callVars, active_executions, cancelled, status,
                  error_text,
                  spawned, results, state_lock >>

\* lines 215-267: one iteration of `for line in reader.lines()`; item is
\* what the blocking read yields, a line of the child or ReadError
ReadLine(s, item) ==
  /\ task[s] = "streaming"
  /\ child[s] = "running"
  /\ Len(output_lines[s]) < scen.maxLines
  /\ IF cancelled[s]
     THEN /\ child' = [child EXCEPT ![s] = "killed"]
          /\ Finish(s, Err("Execution cancelled", "none"))
          /\ UNCHANGED << output_lines, progress, emitted >>
     ELSE IF item = ReadError
     THEN /\ Finish(s, Err("io", "stdout"))
          /\ UNCHANGED << child, output_lines, progress, emitted >>
     ELSE /\ output_lines' = [output_lines EXCEPT ![s] = Append(@, item)]
          /\ progress' =
               IF /\ item.json /\ item.type = "progress"
                  /\ item.processed >= 0 /\ item.total >= 0
                  /\ item.step # Absent
               THEN [progress EXCEPT
                       ![s] = update(@, item.processed, item.step)]
               ELSE progress
          /\ emitted' = [emitted EXCEPT
                           ![s] = emit(@, execution_id[s], item,
                                       progress'[s])]
          /\ UNCHANGED << child, task, task_result >>
  /\ UNCHANGED << scenario, pipeVars, lockVars, callVars, active_executions, cancelled, status,
                  error_text,
                  spawned, results, state_lock >>

\* an interpreter that prefers a result line of stdout to the exit status
Interpret_stdout_first(id, lines, code, stderr) ==
  LET i == find_result_line(lines) IN
  IF i # 0 /\ parse_result(lines[i]).tag = "ok"
  THEN ExecutionResult(id, parse_result(lines[i]).payload, "None")
  ELSE IF code = 0 THEN Err("No result found in script output", "none")
  ELSE ExecutionResult(id, ErrorPayload(parse_python_error(stderr)),
                       "Script execution failed")

\* lines 277-341: the interpretation of the output once the child is gone
Interpret(id, lines, code, stderr) ==
  IF code = 0
  THEN LET i == find_result_line(lines) IN
       IF i = 0 THEN Err("No result found in script output", "none")
       ELSE LET p == parse_result(lines[i]) IN
            IF p.tag = "err" THEN Err(p.msg, "none")
            ELSE ExecutionResult(id, p.payload, "None")
  ELSE ExecutionResult(id, ErrorPayload(parse_python_error(stderr)),
                       "Script execution failed")

\* a runner that looks at the cancellation flag once more at end of file
ReadEof_checks_flag(s, code, stderr, io) ==
  /\ task[s] = "streaming"
  /\ child[s] = "running"
  /\ IF cancelled[s]
     THEN /\ child' = [child EXCEPT ![s] = "killed"]
          /\ Finish(s, Err("Execution cancelled", "none"))
          /\ UNCHANGED << status, error_text, results >>
     ELSE /\ child' = [child EXCEPT ![s] = "exited"]
          /\ status' = [status EXCEPT ![s] = IF io = "wait" THEN -1 ELSE code]
          /\ error_text' = [error_text EXCEPT
                             ![s] = IF code # 0 /\ io = "ok" THEN stderr ELSE @]
          /\ LET r == IF io = "wait" \/ (io = "stderr" /\ code # 0)
                      THEN Err("io", io)
                      ELSE Interpret(progress[s].execution_id, output_lines[s],
                                     code, stderr)
             IN /\ Finish(s, r)
                /\ results' = [results EXCEPT
                                 ![s] = IF r.tag = "ok" THEN @ + 1 ELSE @]
  /\ UNCHANGED << scenario, emitted, pipeVars, lockVars, callVars, active_executions, progress, cancelled,
                  output_lines, spawned, state_lock >>

\* lines 269-341: stdout reaches end of file, child.wait() gives the exit
\* status, the result is built.  io is "ok", "wait" (child.wait fails) or
\* "stderr" (reading stderr fails after a non-zero exit).
ReadEof(s, code, stderr, io) ==
  /\ task[s] = "streaming"
  /\ child[s] = "running"
  /\ child' = [child EXCEPT ![s] = "exited"]
  /\ status' = [status EXCEPT ![s] = IF io = "wait" THEN -1 ELSE code]
  /\ error_text' = [error_text EXCEPT
                     ![s] = IF code # 0 /\ io = "ok" THEN stderr ELSE @]
  /\ LET r == IF io = "wait" \/ (io = "stderr" /\ code # 0)
              THEN Err("io", io)
              ELSE Interpret(progress[s].execution_id, output_lines[s],
                             code, stderr)
     IN /\ Finish(s, r)
        /\ results' = [results EXCEPT
                         ![s] = IF r.tag = "ok" THEN @ + 1 ELSE @]
  /\ UNCHANGED << scenario, emitted, pipeVars, lockVars, callVars, active_executions, progress, cancelled,
                  output_lines, spawned, state_lock >>

\* the child stops writing without exiting (an endless loop, a sleep)
ChildLoops(s) ==
  /\ child[s] = "running"
  /\ task[s] = "streaming"
  /\ child' = [child EXCEPT ![s] = "looping"]
  /\ UNCHANGED << scenario, emitted, pipeVars, lockVars, callVars, active_executions, progress, cancelled,
                  task, task_result, output_lines, status, error_text, spawned,
                  results,
                  state_lock >>

\* the spawned task ends without returning (it panics, or the runtime
\* drops it): the JoinHandle yields a JoinError
TaskPanics(s) ==
  /\ scen.panics
  /\ task[s] \in {"spawned", "stdin", "streaming"}
  /\ Finish(s, JoinError)
  /\ UNCHANGED << scenario, emitted, pipeVars, lockVars, callVars, active_executions, progress, cancelled,
                  child, output_lines, status, error_text, spawned,
                  results,
                  state_lock >>

\* ------------------------------------------ ScriptExecutor::get_progress
\* lines 531-540.  The answer: Some(copy of the record) or None.
None == [some |-> FALSE, value |-> NoProgress]
Some(p) == [some |-> TRUE, value |-> p]

get_progress_answer(id) ==
  IF id \in DOMAIN active_executions
  THEN Some(progress[active_executions[id].progress])
  ELSE None

\* a read: no variable changes
get_progress(id) ==
  /\ id \in Ids
  /\ UNCHANGED vars

\* --------------------------------------- ScriptExecutor::cancel_execution
\* lines 542-551.  The answer: "Ok" or the error text.
cancel_execution_answer(id) ==
  IF id \in DOMAIN active_executions THEN "Ok" ELSE "Execution not found"

\* a cancel that, finding no entry under the id, flags every execution
cancel_execution_all(id) ==
  /\ IF id \in DOMAIN active_executions
     THEN cancelled' = [cancelled EXCEPT
                          ![active_executions[id].cancelled] = TRUE]
     ELSE cancelled' = [s \in Slots |-> TRUE]
  /\ UNCHANGED << scenario, emitted, pipeVars, lockVars, callVars, active_executions, progress, taskVars,
                  state_lock >>

cancel_execution(id) ==
  /\ IF id \in DOMAIN active_executions
     THEN cancelled' = [cancelled EXCEPT
                          ![active_executions[id].cancelled] = TRUE]
     ELSE UNCHANGED cancelled
  /\ UNCHANGED << scenario, emitted, pipeVars, lockVars, callVars, active_executions, progress, taskVars,
                  state_lock >>

\* ================================================= executor-level runs ===
Next ==
  \/ \E s \in Slots, sc \in scen.scripts, rows \in scen.rows,
        file \in scen.files : execute_script(s, sc, rows, file)
  \/ \E s \in Slots : InsertExecution(s)
  \/ \E s \in Slots : RemoveExecution(s)
  \/ \E s \in Slots : AwaitTask(s)
  \/ \E s \in Slots, ok \in scen.oks : StartProcess(s, ok)
  \/ \E s \in Slots, ok \in scen.oks : WriteStdin(s, ok)
  \/ \E s \in Slots, item \in scen.lines \cup scen.reads : ReadLine(s, item)
  \/ \E s \in Slots, code \in scen.codes, stderr \in scen.stderrs,
        io \in scen.ios : ReadEof(s, code, stderr, io)
  \/ \E s \in Slots : ChildLoops(s)
  \/ \E s \in Slots : TaskPanics(s)
  \/ \E id \in Ids : get_progress(id)
  \/ \E id \in Ids : cancel_execution(id)

Spec == Init /\ [][Next]_vars

\* one call at a time, with every fault and the whole line alphabet
SpecRun == InitRun /\ [][Next]_vars

\* one call at a time, the child exiting with any stderr text
InitClassify == InitWith("classify")
SpecClassify == InitClassify /\ [][Next]_vars

\* one call at a time over tables of several sizes, progress in any order
InitProgress == InitWith("progress")
SpecProgress == InitProgress /\ [][Next]_vars

\* one call at a time, progress lines with a member missing
InitPartial == InitWith("partial")
SpecPartial == InitPartial /\ [][Next]_vars

\* one call at a time, result lines of every shape
InitDecode == InitWith("decode")
SpecDecode == InitDecode /\ [][Next]_vars

\* one call at a time, any program text
InitValidate == InitWith("validate")
SpecValidate == InitValidate /\ [][Next]_vars

\* one call at a time, the child exiting with a stderr text without names
InitFallback == InitWith("fallback")
SpecFallback == InitFallback /\ [][Next]_vars

\* ====================================================== command layer ===
\* commands/ai.rs 451-537.  A Transformation without approval is rejected
\* before the executor is locked; otherwise the command locks the
\* Mutex<ScriptExecutor> (it waits while another command holds it) and
\* keeps it until executor.execute_script has returned.
\* a command without the approval check
cmd_execute_script_no_gate(s, sc, approval, rows, file) ==
  /\ state_lock = 0
  /\ Enter(s, sc, rows, file)
  /\ state_lock' = IF pc'[s] = "returned" THEN 0 ELSE s

\* a command that gives the executor lock back as soon as the call is made
cmd_execute_script_unlocked(s, sc, approval, rows, file) ==
  /\ ~(sc.script_type = "Transformation" /\ ~approval)
  /\ state_lock = 0
  /\ Enter(s, sc, rows, file)
  /\ state_lock' = 0

cmd_execute_script(s, sc, approval, rows, file) ==
  IF sc.script_type = "Transformation" /\ ~approval
  THEN /\ pc[s] \in {"idle", "returned"}
       /\ s \in scen.slots
       /\ calls < MaxExec
       /\ calls' = calls + 1
       /\ script' = [script EXCEPT ![s] = sc]
       /\ ret' = [ret EXCEPT
                    ![s] = Err("Script execution requires approval", "none")]
       /\ pc' = [pc EXCEPT ![s] = "returned"]
       /\ execution_id' = [execution_id EXCEPT ![s] = 0]
       /\ exec' = [exec EXCEPT ![s] = NoExec]
       /\ registered' = [registered EXCEPT ![s] = FALSE]
       /\ progress' = [progress EXCEPT ![s] = NoProgress]
       /\ cancelled' = [cancelled EXCEPT ![s] = FALSE]
       /\ temp_file' = [temp_file EXCEPT ![s] = "none"]
       /\ task' = [task EXCEPT ![s] = "none"]
       /\ task_result' = [task_result EXCEPT ![s] = Pending]
       /\ child' = [child EXCEPT ![s] = "none"]
       /\ output_lines' = [output_lines EXCEPT ![s] = << >>]
       /\ emitted' = [emitted EXCEPT ![s] = << >>]
       /\ status' = [status EXCEPT ![s] = -1]
       /\ error_text' = [error_text EXCEPT ![s] = NoStderr]
       /\ spawned' = [spawned EXCEPT ![s] = 0]
       /\ results' = [results EXCEPT ![s] = 0]
       /\ UNCHANGED << scenario, pipeVars, lockVars, minted, active_executions,
                       state_lock >>
  ELSE /\ state_lock = 0
       /\ Enter(s, sc, rows, file)
       /\ state_lock' = IF pc'[s] = "returned" THEN 0 ELSE s

\* commands/ai.rs 554-573
cmd_get_script_progress(id) ==
  /\ state_lock = 0
  /\ get_progress(id)

\* commands/ai.rs 590-607
cmd_cancel_script_execution(id) ==
  /\ state_lock = 0
  /\ cancel_execution(id)

\* commands/ai.rs 561-572: what get_script_progress answers
cmd_get_script_progress_answer(id) ==
  LET r == get_progress_answer(id) IN
  IF r.some
  THEN [tag |-> "ok", msg |-> "none", progress |-> r.value,
        is_completed |-> r.value.progress_percentage >= 100]
  ELSE [tag |-> "err", msg |-> "Execution not found",
        progress |-> NoProgress, is_completed |-> FALSE]

\* commands/ai.rs 596-606: what cancel_script_execution answers
cmd_cancel_script_execution_answer(id) ==
  LET r == cancel_execution_answer(id) IN
  IF r = "Ok"
  THEN [success |-> TRUE, message |-> << "Execution cancelled" >>]
  ELSE [success |-> FALSE,
        message |-> << "Failed to cancel execution: ", r >>]

NextCmd ==
  \/ \E s \in Slots, sc \in scen.scripts, approval \in BOOLEAN,
        rows \in scen.rows, file \in scen.files :
        cmd_execute_script(s, sc, approval, rows, file)
  \/ \E s \in Slots : InsertExecution(s)
  \/ \E s \in Slots : RemoveExecution(s)
  \/ \E s \in Slots : AwaitTask(s)
  \/ \E s \in Slots, ok \in scen.oks : StartProcess(s, ok)
  \/ \E s \in Slots, ok \in scen.oks : WriteStdin(s, ok)
  \/ \E s \in Slots, item \in scen.lines \cup scen.reads : ReadLine(s, item)
  \/ \E s \in Slots, code \in scen.codes, stderr \in scen.stderrs,
        io \in scen.ios : ReadEof(s, code, stderr, io)
  \/ \E s \in Slots : ChildLoops(s)
  \/ \E s \in Slots : TaskPanics(s)
  \/ \E id \in Ids : cmd_get_script_progress(id)
  \/ \E id \in Ids : cmd_cancel_script_execution(id)

InitCmd == InitWith("command")
SpecCmd == InitCmd /\ [][NextCmd]_vars

\* ============================================================ fairness ==
\* The tokio runtime runs every task that is ready, and a child that has a
\* line to write or that exits is read: each step of a caller and of a
\* spawned task is taken once it stays possible.  Nothing makes a child
\* write or exit (ChildLoops), and no fault has to happen.
Fairness ==
  \A s \in Slots :
    /\ WF_vars(InsertExecution(s))
    /\ WF_vars(RemoveExecution(s))
    /\ WF_vars(AwaitTask(s))
    /\ WF_vars(StartProcess(s, TRUE))
    /\ WF_vars(WriteStdin(s, TRUE))
    /\ WF_vars(\E item \in scen.lines : ReadLine(s, item))
    /\ WF_vars(\E code \in scen.codes, stderr \in scen.stderrs :
                 ReadEof(s, code, stderr, "ok"))

InitCancel == InitWith("cancel")
FairSpec == InitCancel /\ [][Next]_vars /\ Fairness

\* ========================================================= lock by lock ==
\* The same executor with every tokio Mutex taken and given back in a step
\* of its own: the registry lock (active_executions), and for each
\* execution the lock of its progress record and the lock of its flag.
\* `lock().await` is a step that waits until the lock is free.

\* executor.rs 104-107: the caller waits for the registry lock
insert_lock(s) ==
  /\ pc[s] = "insert"
  /\ registry_guard = Free
  /\ registry_guard' = Call(s)
  /\ UNCHANGED << execVars, pipeVars, progress_guard, cancelled_guard, client, loop >>

\* executor.rs 104-107: insert, and the guard is dropped at the end of the
\* block
insert_put(s) ==
  /\ pc[s] = "insert"
  /\ registry_guard = Call(s)
  /\ active_executions' =
       [k \in DOMAIN active_executions \cup { execution_id[s] } |->
          IF k = execution_id[s]
          THEN [handle |-> s, progress |-> s, cancelled |-> s]
          ELSE active_executions[k]]
  /\ registered' = [registered EXCEPT ![s] = TRUE]
  /\ pc' = [pc EXCEPT ![s] = "remove"]
  /\ registry_guard' = Free
  /\ UNCHANGED << scenario, emitted, pipeVars, calls, script, ret, execution_id, minted, exec,
                  progress, cancelled, temp_file, taskVars, state_lock,
                  progress_guard, cancelled_guard, client, loop >>

\* executor.rs 111: the caller waits for the registry lock again
remove_lock(s) ==
  /\ pc[s] = "remove"
  /\ registry_guard = Free
  /\ registry_guard' = Call(s)
  /\ UNCHANGED << execVars, pipeVars, progress_guard, cancelled_guard, client, loop >>

\* a removal that empties the registry
remove_take_clear(s) ==
  /\ pc[s] = "remove"
  /\ registry_guard = Call(s)
  /\ IF execution_id[s] \in DOMAIN active_executions
     THEN /\ exec' = [exec EXCEPT ![s] = active_executions[execution_id[s]]]
          /\ active_executions' = << >>
          /\ pc' = [pc EXCEPT ![s] = "await"]
          /\ UNCHANGED ret
     ELSE /\ ret' = [ret EXCEPT ![s] = Err("Execution not found", "none")]
          /\ pc' = [pc EXCEPT ![s] = "returned"]
          /\ UNCHANGED << exec, active_executions >>
  /\ registry_guard' = Free
  /\ UNCHANGED << scenario, emitted, pipeVars, calls, script, execution_id, minted, progress,
                  cancelled, temp_file, taskVars, registered, state_lock,
                  progress_guard, cancelled_guard, client, loop >>

\* executor.rs 112-114 and 126-129: remove(&execution_id); the guard is
\* dropped before the await (113) or at the return (128)
remove_take(s) ==
  /\ pc[s] = "remove"
  /\ registry_guard = Call(s)
  /\ IF execution_id[s] \in DOMAIN active_executions
     THEN /\ exec' = [exec EXCEPT ![s] = active_executions[execution_id[s]]]
          /\ active_executions' =
               [k \in DOMAIN active_executions \ { execution_id[s] } |->
                  active_executions[k]]
          /\ pc' = [pc EXCEPT ![s] = "await"]
          /\ UNCHANGED ret
     ELSE /\ ret' = [ret EXCEPT ![s] = Err("Execution not found", "none")]
          /\ pc' = [pc EXCEPT ![s] = "returned"]
          /\ UNCHANGED << exec, active_executions >>
  /\ registry_guard' = Free
  /\ UNCHANGED << scenario, emitted, pipeVars, calls, script, execution_id, minted, progress,
                  cancelled, temp_file, taskVars, registered, state_lock,
                  progress_guard, cancelled_guard, client, loop >>

\* executor.rs 215: the blocking read of reader.lines() yields a line
loop_next(s, item) ==
  /\ task[s] = "streaming"
  /\ child[s] = "running"
  /\ loop[s].at = "read"
  /\ Len(output_lines[s]) < scen.maxLines
  /\ loop' = [loop EXCEPT ![s] = [at |-> "check", line |-> item]]
  /\ UNCHANGED << execVars, pipeVars, registry_guard, progress_guard, cancelled_guard,
                  client >>

\* executor.rs 218: cancelled.lock().await
loop_lock_cancelled(s) ==
  /\ loop[s].at = "check"
  /\ cancelled_guard[s] = Free
  /\ cancelled_guard' = [cancelled_guard EXCEPT ![s] = Task(s)]
  /\ loop' = [loop EXCEPT ![s].at = "flag"]
  /\ UNCHANGED << execVars, pipeVars, registry_guard, progress_guard, client >>

\* executor.rs 219-231: the flag is read and its guard dropped; a set flag
\* ends the task, otherwise the line is pushed
loop_check(s) ==
  /\ loop[s].at = "flag"
  /\ cancelled_guard[s] = Task(s)
  /\ cancelled_guard' = [cancelled_guard EXCEPT ![s] = Free]
  /\ IF cancelled[s]
     THEN /\ child' = [child EXCEPT ![s] = "killed"]
          /\ Finish(s, Err("Execution cancelled", "none"))
          /\ loop' = [loop EXCEPT ![s] = Reading]
          /\ UNCHANGED output_lines
     ELSE /\ output_lines' =
               [output_lines EXCEPT ![s] = Append(@, loop[s].line)]
          /\ loop' = [loop EXCEPT
                        ![s] = IF IsProgressEvent(loop[s].line)
                               THEN [@ EXCEPT !.at = "update"]
                               ELSE Reading]
          /\ UNCHANGED << child, task, task_result >>
  /\ UNCHANGED << scenario, emitted, pipeVars, callVars, active_executions, progress, cancelled,
                  status, error_text, spawned, results, state_lock,
                  registry_guard, progress_guard, client >>

\* executor.rs 243: tracker.lock().await
loop_lock_progress(s) ==
  /\ loop[s].at = "update"
  /\ progress_guard[s] = Free
  /\ progress_guard' = [progress_guard EXCEPT ![s] = Task(s)]
  /\ loop' = [loop EXCEPT ![s].at = "updating"]
  /\ UNCHANGED << execVars, pipeVars, registry_guard, cancelled_guard, client >>

\* executor.rs 244-262: progress.update, the event, and the guard is dropped
\* at the end of the block
loop_update(s) ==
  /\ loop[s].at = "updating"
  /\ progress_guard[s] = Task(s)
  /\ progress' = [progress EXCEPT
                    ![s] = update(@, loop[s].line.processed,
                                  loop[s].line.step)]
  /\ emitted' = [emitted EXCEPT
                   ![s] = emit(@, execution_id[s], loop[s].line,
                               progress'[s])]
  /\ progress_guard' = [progress_guard EXCEPT ![s] = Free]
  /\ loop' = [loop EXCEPT ![s] = Reading]
  /\ UNCHANGED << scenario, pipeVars, callVars, active_executions, cancelled, taskVars,
                  state_lock, registry_guard, cancelled_guard, client >>

\* executor.rs 269-341: the iterator ends, no line is in hand
loop_eof(s, code, stderr) ==
  /\ loop[s].at = "read"
  /\ ReadEof(s, code, stderr, "ok")

\* what a client call answered
Answer(text, value) == [text |-> text, value |-> value]

\* executor.rs 532: active_executions.lock().await
get_progress_lock(c, id) ==
  /\ client[c].at = "idle"
  /\ registry_guard = Free
  /\ registry_guard' = Client(c)
  /\ client' = [client EXCEPT
                  ![c] = [op |-> "get_progress", id |-> id,
                          at |-> "registry", answer |-> NoAnswer]]
  /\ UNCHANGED << execVars, pipeVars, progress_guard, cancelled_guard, loop >>

\* executor.rs 533-535: the entry is there, exec.progress.lock().await
get_progress_entry(c) ==
  /\ client[c].op = "get_progress"
  /\ client[c].at = "registry"
  /\ client[c].id \in DOMAIN active_executions
  /\ LET e == active_executions[client[c].id] IN
       /\ progress_guard[e.progress] = Free
       /\ progress_guard' = [progress_guard EXCEPT ![e.progress] = Client(c)]
  /\ client' = [client EXCEPT ![c].at = "entry"]
  /\ UNCHANGED << execVars, pipeVars, registry_guard, cancelled_guard, loop >>

\* a poll that gives the registry lock back and keeps the progress lock
get_progress_return_keeps_guard(c) ==
  /\ client[c].op = "get_progress"
  /\ registry_guard = Client(c)
  /\ \/ /\ client[c].at = "entry"
        /\ LET e == active_executions[client[c].id] IN
             client' = [client EXCEPT
                          ![c] = [Idle EXCEPT
                                    !.answer =
                                       Answer("Some", progress[e.progress])]]
     \/ /\ client[c].at = "registry"
        /\ client[c].id \notin DOMAIN active_executions
        /\ client' = [client EXCEPT
                        ![c] = [Idle EXCEPT
                                  !.answer = Answer("None", NoProgress)]]
  /\ registry_guard' = Free
  /\ UNCHANGED << execVars, pipeVars, progress_guard, cancelled_guard, loop >>

\* executor.rs 536-540: the copy is made and both guards are dropped, or
\* there is no entry and the registry guard is dropped
get_progress_return(c) ==
  /\ client[c].op = "get_progress"
  /\ registry_guard = Client(c)
  /\ \/ /\ client[c].at = "entry"
        /\ LET e == active_executions[client[c].id] IN
             /\ client' = [client EXCEPT
                             ![c] = [Idle EXCEPT
                                       !.answer =
                                          Answer("Some",
                                                 progress[e.progress])]]
             /\ progress_guard' = [progress_guard EXCEPT ![e.progress] = Free]
     \/ /\ client[c].at = "registry"
        /\ client[c].id \notin DOMAIN active_executions
        /\ client' = [client EXCEPT
                        ![c] = [Idle EXCEPT
                                  !.answer = Answer("None", NoProgress)]]
        /\ UNCHANGED progress_guard
  /\ registry_guard' = Free
  /\ UNCHANGED << execVars, pipeVars, cancelled_guard, loop >>

\* executor.rs 543: active_executions.lock().await
cancel_execution_lock(c, id) ==
  /\ client[c].at = "idle"
  /\ registry_guard = Free
  /\ registry_guard' = Client(c)
  /\ client' = [client EXCEPT
                  ![c] = [op |-> "cancel_execution", id |-> id,
                          at |-> "registry", answer |-> NoAnswer]]
  /\ UNCHANGED << execVars, pipeVars, progress_guard, cancelled_guard, loop >>

\* executor.rs 544-545: the entry is there, exec.cancelled.lock().await
cancel_execution_entry(c) ==
  /\ client[c].op = "cancel_execution"
  /\ client[c].at = "registry"
  /\ client[c].id \in DOMAIN active_executions
  /\ LET e == active_executions[client[c].id] IN
       /\ cancelled_guard[e.cancelled] = Free
       /\ cancelled_guard' =
            [cancelled_guard EXCEPT ![e.cancelled] = Client(c)]
  /\ client' = [client EXCEPT ![c].at = "entry"]
  /\ UNCHANGED << execVars, pipeVars, registry_guard, progress_guard, loop >>

\* executor.rs 546-550: the flag is set and both guards are dropped, or
\* there is no entry and the answer is the error
cancel_execution_return(c) ==
  /\ client[c].op = "cancel_execution"
  /\ registry_guard = Client(c)
  /\ \/ /\ client[c].at = "entry"
        /\ LET e == active_executions[client[c].id] IN
             /\ cancelled' = [cancelled EXCEPT ![e.cancelled] = TRUE]
             /\ cancelled_guard' =
                  [cancelled_guard EXCEPT ![e.cancelled] = Free]
        /\ client' = [client EXCEPT
                        ![c] = [Idle EXCEPT
                                  !.answer = Answer("Ok", NoProgress)]]
     \/ /\ client[c].at = "registry"
        /\ client[c].id \notin DOMAIN active_executions
        /\ client' = [client EXCEPT
                        ![c] = [Idle EXCEPT
                                  !.answer =
                                     Answer("Execution not found",
                                            NoProgress)]]
        /\ UNCHANGED << cancelled, cancelled_guard >>
  /\ registry_guard' = Free
  /\ UNCHANGED << scenario, emitted, pipeVars, callVars, active_executions, progress, taskVars,
                  state_lock, progress_guard, loop >>

NextLocks ==
  \/ \E s \in Slots, sc \in scen.scripts, rows \in scen.rows,
        file \in scen.files : execute_script(s, sc, rows, file)
  \/ \E s \in Slots : insert_lock(s)
  \/ \E s \in Slots : insert_put(s)
  \/ \E s \in Slots : remove_lock(s)
  \/ \E s \in Slots : remove_take(s)
  \/ \E s \in Slots : AwaitTask(s)
  \/ \E s \in Slots, ok \in scen.oks : StartProcess(s, ok)
  \/ \E s \in Slots, ok \in scen.oks : WriteStdin(s, ok)
  \/ \E s \in Slots, item \in scen.lines : loop_next(s, item)
  \/ \E s \in Slots : loop_lock_cancelled(s)
  \/ \E s \in Slots : loop_check(s)
  \/ \E s \in Slots : loop_lock_progress(s)
  \/ \E s \in Slots : loop_update(s)
  \/ \E s \in Slots, code \in scen.codes, stderr \in scen.stderrs :
        loop_eof(s, code, stderr)
  \/ \E c \in Clients, id \in Ids : get_progress_lock(c, id)
  \/ \E c \in Clients : get_progress_entry(c)
  \/ \E c \in Clients : get_progress_return(c)
  \/ \E c \in Clients, id \in Ids : cancel_execution_lock(c, id)
  \/ \E c \in Clients : cancel_execution_entry(c)
  \/ \E c \in Clients : cancel_execution_return(c)

\* The runtime runs every task that is ready, so a client that holds its
\* locks returns and a loop that holds the progress lock applies its update;
\* a tokio Mutex hands the lock to its waiters in the order they came, so a
\* loop that waits for a lock that is free again and again gets it.  Nothing
\* makes a child write, and nobody has to poll or cancel.
FairLocks ==
  /\ \A s \in Slots :
       SF_vars(loop_lock_progress(s)) /\ WF_vars(loop_update(s))
  /\ \A c \in Clients : WF_vars(get_progress_return(c))

InitLocks == InitWith("locks")
SpecLocks == InitLocks /\ [][NextLocks]_vars /\ FairLocks

\* ======================================================== pipe by pipe ===
\* execute_script_internal with the three pipes of the child (Stdio::piped,
\* executor.rs 158-160) as buffers of PipeCap units.  The child runs a
\* program, a list of operations: "in" reads a unit of its stdin, "out"
\* writes a line to its stdout, "err" writes a unit to its stderr; after
\* the last one it exits.  A write to a full pipe and a read of an empty
\* pipe whose other end is open wait.
Ops == { "in", "out", "err" }
Programs == UNION { [1..n -> Ops] : n \in 0..MaxProgram }

\* executor.rs 155-167: Command::spawn with the three pipes
spawn_python(s, ok, code) ==
  /\ task[s] = "spawned"
  /\ IF ok
     THEN /\ child' = [child EXCEPT ![s] = "running"]
          /\ spawned' = [spawned EXCEPT ![s] = @ + 1]
          /\ task' = [task EXCEPT ![s] = "stdin"]
          /\ pipe' = [pipe EXCEPT ![s] = NoPipes]
          /\ python' = [python EXCEPT
                          ![s] = [code |-> code, at |-> 1, up |-> TRUE]]
          /\ UNCHANGED task_result
     ELSE /\ Finish(s, Err("Failed to start Python process", "none"))
          /\ UNCHANGED << child, spawned, pipe, python >>
  /\ UNCHANGED << scenario, emitted, lockVars, callVars, active_executions, progress,
                  cancelled, output_lines, status, error_text, results,
                  state_lock >>

\* executor.rs 182-196: write_all of the envelope, a unit at a time; the
\* write waits while the pipe is full, fails when the child is gone, and
\* stdin is closed after the last unit (end of the block, 201)
stdin_write_all(s) ==
  /\ task[s] = "stdin"
  /\ IF ~python[s].up
     THEN /\ Finish(s, Err("io", "stdin"))
          /\ UNCHANGED pipe
     ELSE /\ pipe[s].stdin < PipeCap
          /\ pipe[s].sent < EnvelopeLen
          /\ pipe' = [pipe EXCEPT ![s].stdin = @ + 1, ![s].sent = @ + 1]
          /\ task' = [task EXCEPT
                        ![s] = IF pipe[s].sent + 1 = EnvelopeLen
                               THEN "streaming" ELSE @]
          /\ UNCHANGED task_result
  /\ UNCHANGED << scenario, emitted, lockVars, callVars, active_executions, progress,
                  cancelled, child, output_lines, status, error_text,
                  spawned, results, state_lock, python >>

\* the next operation of the child's program
python_step(s) ==
  /\ python[s].up
  /\ child[s] = "running"
  /\ LET p == python[s] IN
     IF p.at > Len(p.code) \/ task[s] = "finished"
     THEN /\ python' = [python EXCEPT ![s].up = FALSE]
          /\ UNCHANGED pipe
     ELSE /\ python' = [python EXCEPT ![s].at = @ + 1]
          /\ CASE p.code[p.at] = "in" ->
                    IF pipe[s].stdin > 0
                    THEN pipe' = [pipe EXCEPT ![s].stdin = @ - 1]
                    ELSE /\ pipe[s].sent = EnvelopeLen
                         /\ UNCHANGED pipe
               [] p.code[p.at] = "out" ->
                    /\ pipe[s].stdout < PipeCap
                    /\ pipe' = [pipe EXCEPT ![s].stdout = @ + 1]
               [] p.code[p.at] = "err" ->
                    /\ pipe[s].stderr < PipeCap
                    /\ pipe' = [pipe EXCEPT ![s].stderr = @ + 1]
  /\ UNCHANGED << execVars, lockVars >>

\* executor.rs 215-267: one iteration of the loop, the line taken from the
\* stdout pipe
stdout_read(s, item) ==
  /\ task[s] = "streaming"
  /\ child[s] = "running"
  /\ pipe[s].stdout > 0
  /\ pipe' = [pipe EXCEPT ![s].stdout = @ - 1]
  /\ IF cancelled[s]
     THEN /\ child' = [child EXCEPT ![s] = "killed"]
          /\ Finish(s, Err("Execution cancelled", "none"))
          /\ UNCHANGED << output_lines, progress, emitted >>
     ELSE /\ output_lines' = [output_lines EXCEPT ![s] = Append(@, item)]
          /\ progress' =
               IF IsProgressEvent(item)
               THEN [progress EXCEPT
                       ![s] = update(@, item.processed, item.step)]
               ELSE progress
          /\ emitted' = [emitted EXCEPT
                           ![s] = emit(@, execution_id[s], item,
                                       progress'[s])]
          /\ UNCHANGED << child, task, task_result >>
  /\ UNCHANGED << scenario, lockVars, callVars, active_executions, cancelled,
                  status, error_text, spawned, results, state_lock, python >>

\* executor.rs 269-341: the stdout pipe is empty and the child has closed
\* it; child.wait, then stderr is read to its end
stdout_eof(s, code, stderr) ==
  /\ pipe[s].stdout = 0
  /\ ~python[s].up
  /\ ReadEof(s, code, stderr, "ok")

NextPipes ==
  \/ \E s \in Slots, sc \in scen.scripts, rows \in scen.rows,
        file \in scen.files : execute_script(s, sc, rows, file)
  \/ \E s \in Slots : InsertExecution(s)
  \/ \E s \in Slots : RemoveExecution(s)
  \/ \E s \in Slots : AwaitTask(s)
  \/ \E s \in Slots, ok \in scen.oks, code \in Programs :
        spawn_python(s, ok, code)
  \/ \E s \in Slots : stdin_write_all(s)
  \/ \E s \in Slots : python_step(s)
  \/ \E s \in Slots, item \in scen.lines : stdout_read(s, item)
  \/ \E s \in Slots, code \in scen.codes, stderr \in scen.stderrs :
        stdout_eof(s, code, stderr)

InitPipes == InitWith("pipes")
SpecPipes == InitPipes /\ [][NextPipes]_vars

\* ============================================================ generator ==
\* generator.rs.  A prompt and the code the text-generation service returns
\* are sequences of constructs, like a program text.
Prompts == { << "show" >>, << "change" >>, << "open(" >> }
GeneratedCodes == UNION { [1..n -> Constructs] : n \in 0..MaxCodeLen }

\* generator.rs 106-135: a transformation keyword wins, then an analysis
\* keyword, else Analysis
detect_script_type(prompt) ==
  IF \E i \in DOMAIN prompt : prompt[i] = "change" THEN "Transformation"
  ELSE "Analysis"

\* generator.rs 218-254: the leading whitespace of every line is rewritten;
\* the constructs of a line, which hold no leading whitespace, stay
normalize_code_indentation(code) == [i \in DOMAIN code |-> code[i]]

\* a template whose header does not import sys
wrap_in_template_no_sys(code, user_prompt, script_type) ==
  << "# User Request:" >> \o user_prompt
    \o << "import json", "import csv", "from datetime import", "print(" >>
    \o normalize_code_indentation(code) \o << "print(" >>

\* generator.rs 137-214: the fixed header (with the prompt in a comment),
\* the normalized code, the fixed trailer
wrap_in_template(code, user_prompt, script_type) ==
  << "# User Request:" >> \o user_prompt
    \o << "import sys", "import json", "import csv", "from datetime import",
          "sys.stdin.readline(", "print(" >>
    \o normalize_code_indentation(code) \o << "print(" >>

\* generator.rs 42-67; llm is whether the service gave an answer
generate_script(s, prompt, generated_code, llm) ==
  /\ pc[s] \in {"idle", "returned"}
  /\ s \in scen.slots
  /\ script' =
       IF llm
       THEN [script EXCEPT
               ![s] = [content |-> wrap_in_template(generated_code, prompt,
                                     detect_script_type(prompt)),
                       script_type |-> detect_script_type(prompt)]]
       ELSE script
  /\ UNCHANGED << scenario, emitted, pipeVars, lockVars, calls, pc, ret, execution_id,
                  minted, exec, temp_file, registered, active_executions,
                  progress, cancelled, taskVars, state_lock >>

\* generator.rs 70-104: the type of the original script is kept
fix_script(s, original_prompt, generated_code, llm) ==
  /\ pc[s] = "returned"
  /\ s \in scen.slots
  /\ script[s] # NoScript
  /\ script' =
       IF llm
       THEN [script EXCEPT
               ![s] = [content |-> wrap_in_template(generated_code,
                                     original_prompt, script[s].script_type),
                       script_type |-> script[s].script_type]]
       ELSE script
  /\ UNCHANGED << scenario, emitted, pipeVars, lockVars, calls, pc, ret, execution_id,
                  minted, exec, temp_file, registered, active_executions,
                  progress, cancelled, taskVars, state_lock >>

\* the generated script is handed to execute_script
execute_generated(s, rows, file) ==
  /\ script[s] # NoScript
  /\ execute_script(s, script[s], rows, file)

NextGenerated ==
  \/ \E s \in Slots, prompt \in Prompts, code \in GeneratedCodes,
        llm \in BOOLEAN : generate_script(s, prompt, code, llm)
  \/ \E s \in Slots, prompt \in Prompts, code \in GeneratedCodes,
        llm \in BOOLEAN : fix_script(s, prompt, code, llm)
  \/ \E s \in Slots, rows \in scen.rows, file \in scen.files :
        execute_generated(s, rows, file)

InitGenerated == InitWith("generated")
SpecGenerated == InitGenerated /\ [][NextGenerated]_vars

\* ============================================================== claims ===
Dangerous(text) ==
  \E i \in 1..Len(DangerousPatterns) : is_match(DangerousPatterns[i], text)

SecurityViolation(r) ==
  /\ r.tag = "err"
  /\ r.msg = "Security validation failed: Dangerous operation detected"

\* C1: a call whose program text matches a deny-list pattern has returned
\* the security violation, and nothing of it exists: no child was started,
\* no temporary file created, no task spawned, no id minted, no registry
\* entry inserted.
C1_DeniedNeverRuns ==
  \A s \in Slots :
    (pc[s] # "idle" /\ Dangerous(script[s].content)) =>
      /\ pc[s] = "returned"
      /\ SecurityViolation(ret[s])
      /\ spawned[s] = 0 /\ child[s] = "none" /\ task[s] = "none"
      /\ temp_file[s] = "none"
      /\ ~registered[s] /\ execution_id[s] = 0
      /\ \A id \in DOMAIN active_executions :
           active_executions[id].handle # s

C1_Witness ==
  \E s \in Slots :
    /\ pc[s] = "returned" /\ script[s] = Denied
    /\ ret[s].detail = "eval\\s*\\("
    /\ minted = 1

\* C2: for an execution that was registered, whose child is running and
\* whose result has not been returned, cancel_execution answers Ok.
C2_CancelRunningAccepted ==
  \A s \in Slots :
    (registered[s] /\ child[s] = "running" /\ pc[s] # "returned") =>
      cancel_execution_answer(execution_id[s]) = "Ok"

\* C3: once the flag of a streaming run is set while its child neither
\* writes nor exits, the run ends as Cancelled and the child is killed
\* (a task that panics ends too, without that result).
C3_CancelledRunEnds ==
  \A s \in Slots :
    (cancelled[s] /\ task[s] = "streaming" /\ child[s] = "looping")
      ~> (/\ task[s] = "finished"
          /\ \/ task_result[s] = JoinError
             \/ /\ task_result[s] = Err("Execution cancelled", "none")
                /\ child[s] = "killed")

\* C4: from registration until the result is returned, get_progress of the
\* execution's id answers its progress record.
C4_ProgressUntilReturned ==
  \A s \in Slots :
    (registered[s] /\ pc[s] # "returned") =>
      get_progress_answer(execution_id[s]) = Some(progress[s])

\* C5: after exit status 0 the result is decoded from the last line that
\* is JSON with a type other than "progress": no later line is such a
\* line, lines before and after it do not matter, and without such a line
\* the run fails with the no-result error.
C5_LastResultLineDecoded ==
  \A s \in Slots :
    (task[s] = "finished" /\ status[s] = 0) =>
      LET L == output_lines[s]
          C == { i \in DOMAIN L : L[i].json /\ L[i].type # "progress" }
      IN IF C = {}
         THEN task_result[s] = Err("No result found in script output", "none")
         ELSE \E i \in C :
                /\ \A j \in C : j <= i
                /\ LET p == parse_result(L[i]) IN
                   IF p.tag = "ok"
                   THEN /\ task_result[s].tag = "ok"
                        /\ task_result[s].result = p.payload
                        /\ p.payload.type \in {"Analysis", "Transformation",
                                               "Error"}
                   ELSE task_result[s] = Err(p.msg, "none")

C5_Witness ==
  \E s \in Slots :
    /\ task[s] = "finished" /\ status[s] = 0
    /\ output_lines[s] = << ErrorLine("bad input"),
                            AnalysisLine("string", "ok", "{}"),
                            ProgressLine(2, 2, "done") >>
    /\ task_result[s].result = Analysis("ok", "{}")

\* the record a run's own progress events leave behind
RECURSIVE Replay(_, _)
Replay(p, lines) ==
  IF lines = << >> THEN p
  ELSE LET l == Head(lines) IN
       Replay(IF l.json /\ l.type = "progress" /\ l.processed >= 0
                 /\ l.total >= 0 /\ l.step # Absent
              THEN [p EXCEPT !.processed_rows = l.processed,
                             !.current_step = l.step,
                             !.progress_percentage =
                                IF p.total_rows > 0
                                THEN (l.processed * 100) \div p.total_rows
                                ELSE 0]
              ELSE p,
              Tail(lines))

\* C6: the entry under id k holds the record whose execution_id is k,
\* get_progress(k) never answers another execution's record, and every
\* record shows the events of its own run only.
C6_NoInterference ==
  /\ \A k \in DOMAIN active_executions :
       progress[active_executions[k].progress].execution_id = k
  /\ \A k \in Ids :
       get_progress_answer(k).some =>
         get_progress_answer(k).value.execution_id = k
  /\ \A s \in Slots :
       progress[s] # NoProgress =>
         /\ progress[s].execution_id = execution_id[s]
         /\ progress[s] =
              Replay([progress[s] EXCEPT !.processed_rows = 0,
                                         !.current_step = "Initializing",
                                         !.progress_percentage = 0],
                     output_lines[s])

C6_Witness ==
  /\ DOMAIN active_executions = {1, 2}
  /\ \E s, t \in Slots :
       /\ progress[s].processed_rows = 1
       /\ progress[t].processed_rows = 0
       /\ get_progress_answer(execution_id[s]) = Some(progress[s])
       /\ get_progress_answer(execution_id[t]) = Some(progress[t])

\* C7: while a child started through the command layer is running, each of
\* the three commands can be served.
C7_HostNotBlocked ==
  \A s \in Slots :
    child[s] = "running" =>
      /\ \A id \in Ids : ENABLED cmd_get_script_progress(id)
      /\ \A id \in Ids : ENABLED cmd_cancel_script_execution(id)
      /\ \A t \in Slots :
           (pc[t] \in {"idle", "returned"} /\ calls < MaxExec) =>
             ENABLED cmd_execute_script(t, Benign, TRUE, 2, "ok")

\* C8: once execute_script has returned, the temporary file of the call
\* does not exist.
C8_TempFileRemoved ==
  \A s \in Slots : pc[s] = "returned" => temp_file[s] # "exists"

\* C9: a call starts at most one child and builds at most one
\* ExecutionResult; a returned call has an outcome; and once its task has
\* finished, the task, its result, the child count and the returned value
\* stay as they are for the rest of that execution.
C9_State ==
  \A s \in Slots :
    /\ spawned[s] <= 1
    /\ results[s] <= 1
    /\ pc[s] = "returned" => ret[s].tag \in {"ok", "err"}
    /\ task[s] = "finished" => task_result[s].tag \in {"ok", "err", "panic"}
    /\ task[s] \in {"stdin", "streaming"} => spawned[s] = 1

C9_Step ==
  \A s \in Slots :
    (execution_id[s] # 0 /\ execution_id'[s] = execution_id[s]) =>
      /\ task[s] = "finished" =>
           /\ task'[s] = "finished"
           /\ task_result'[s] = task_result[s]
           /\ spawned'[s] = spawned[s]
           /\ results'[s] = results[s]
      /\ pc[s] = "returned" => (pc'[s] = "returned" /\ ret'[s] = ret[s])

C9_OneTerminalOutcome == [](C9_State) /\ [][C9_Step]_vars

C9_Witness ==
  \E s \in Slots :
    /\ pc[s] = "returned" /\ spawned[s] = 1
    /\ ret[s] = Err("io", "stdin")

\* C10: every registry entry belongs to a call that has not returned; a
\* returned call has left no entry under its id.
C10_NoEntryOutlivesRun ==
  /\ \A s \in Slots :
       pc[s] = "returned" => execution_id[s] \notin DOMAIN active_executions
  /\ \A k \in DOMAIN active_executions :
       \E s \in Slots : execution_id[s] = k /\ pc[s] = "remove"

C10_Witness ==
  \E s, t \in Slots :
    /\ pc[s] = "returned" /\ ret[s].tag = "ok" /\ temp_file[s] = "removed"
    /\ pc[t] = "remove"
    /\ execution_id[t] \in DOMAIN active_executions

\* C11: the exit status alone selects the interpretation.  After status 0
\* stderr has not been read and an ExecutionResult carries the decoding of
\* a stdout line, never a stderr classification.  After a non-zero status
\* whose stderr could be read, the result is the Error payload classified
\* from that stderr text, whatever stdout holds; if the read of stderr
\* failed the run ended with that I/O error.
C11_ExitStatusSelectsPath ==
  \A s \in Slots :
    task[s] = "finished" =>
      /\ status[s] = 0 =>
           /\ error_text[s] = NoStderr
           /\ task_result[s].tag = "ok" =>
                /\ \E i \in DOMAIN output_lines[s] :
                     parse_result(output_lines[s][i])
                       = ResOk(task_result[s].result)
                /\ task_result[s].result.message.kind \in {"none", "raw"}
      /\ (status[s] > 0 /\ error_text[s] # NoStderr) =>
           task_result[s] =
             ExecutionResult(execution_id[s],
                             ErrorPayload(parse_python_error(error_text[s])),
                             "Script execution failed")
      /\ (status[s] > 0 /\ error_text[s] = NoStderr) =>
           task_result[s] = Err("io", "stderr")

C11_Witness ==
  \E s \in Slots :
    /\ task[s] = "finished" /\ status[s] = 1
    /\ output_lines[s] = << ProgressLine(1, 2, "half"),
                            AnalysisLine("string", "ok", "{}") >>
    /\ task_result[s].result = ErrorPayload(parse_python_error(<< "Killed" >>))

\* C12: after exit status 0 with no line that is JSON with a type other
\* than "progress" (no line, progress lines, lines that are not JSON), the
\* task ends with the no-result error, builds no ExecutionResult, and
\* execute_script returns that error.
C12_NoResultFound ==
  \A s \in Slots :
    ( /\ task[s] = "finished" /\ status[s] = 0
      /\ \A i \in DOMAIN output_lines[s] :
           \/ ~output_lines[s][i].json
           \/ output_lines[s][i].type = "progress" ) =>
      /\ task_result[s] = Err("No result found in script output", "none")
      /\ results[s] = 0
      /\ pc[s] = "returned" =>
           ret[s] = Err("No result found in script output", "none")

C12_Witness ==
  \E s \in Slots :
    /\ pc[s] = "returned" /\ status[s] = 0
    /\ output_lines[s] = << RawLine, ProgressLine(1, 2, "half") >>
    /\ ret[s] = Err("No result found in script output", "none")

\* C13: after exit status 0, when some line has type analysis,
\* transformation or error, the result is decoded from the last such line;
\* lines that are not JSON or carry no recognized type do not count.
C13_OnlyRecognizedTypes ==
  \A s \in Slots :
    (task[s] = "finished" /\ status[s] = 0) =>
      LET L == output_lines[s]
          V == { i \in DOMAIN L :
                   L[i].json /\ L[i].type \in {"analysis", "transformation",
                                               "error"} }
      IN V # {} =>
           \E i \in V :
             /\ \A j \in V : j <= i
             /\ task_result[s].tag = "ok"
             /\ ResOk(task_result[s].result) = parse_result(L[i])

\* the error names parse_python_error looks for, in the order it tests them
\* on a line, and the category each of its messages belongs to
PriorityOrder ==
  << "IndentationError", "SyntaxError", "NameError", "TypeError",
     "AttributeError", "ValueError", "KeyError", "IndexError" >>

CategoryOf(kind) ==
  CASE kind = "Python indentation error" -> 1
    [] kind = "Python syntax error" -> 2
    [] kind = "Python name error" -> 3
    [] kind = "Python type error" -> 4
    [] kind = "Python attribute error" -> 5
    [] kind \in {"Data format error", "Data value error",
                 "Python value error"} -> 6
    [] kind \in {"Data key error", "Python key error"} -> 7
    [] kind \in {"Data index error", "Python index error"} -> 8
    [] OTHER -> 0

\* C14: after a non-zero exit, the category reported is the earliest of
\* the priority order among the categories whose error name occurs
\* anywhere in the stderr text, on whichever lines the names are.
C14_PriorityOverWholeText ==
  \A s \in Slots :
    (task[s] = "finished" /\ status[s] > 0 /\ error_text[s] # NoStderr) =>
      LET present ==
            { k \in DOMAIN PriorityOrder :
                \E i \in DOMAIN error_text[s] :
                  contains(error_text[s][i], PriorityOrder[k]) }
      IN present # {} =>
           \A k \in present :
             CategoryOf(task_result[s].result.message.kind) <= k

\* the well-formed progress events among the lines consumed so far: the
\* indices of the lines for which the streaming loop calls update
Consumed(s) ==
  { i \in DOMAIN output_lines[s] :
      LET l == output_lines[s][i] IN
      /\ l.json /\ l.type = "progress"
      /\ l.processed >= 0 /\ l.total >= 0 /\ l.step # Absent }

LastConsumed(s) == CHOOSE i \in Consumed(s) : \A j \in Consumed(s) : j <= i

\* C15: a poll answered after a progress event was consumed reports the
\* percentage processed / total * 100 of the most recent event, with the
\* total that event carries.
C15_PercentageFromEventTotal ==
  \A s \in Slots :
    (Consumed(s) # {} /\ get_progress_answer(execution_id[s]).some) =>
      LET e == output_lines[s][LastConsumed(s)]
          p == get_progress_answer(execution_id[s]).value
      IN p.progress_percentage * e.total = e.processed * 100

\* C16: a progress record starts as processed_rows 0, percentage 0, step
\* "Initializing", and after any updates its percentage is
\* processed_rows / total_rows * 100 when total_rows > 0 and 0 when
\* total_rows is 0.
C16_PercentageRecomputed ==
  \A s \in Slots :
    progress[s] # NoProgress =>
      /\ Consumed(s) = {} =>
           /\ progress[s].processed_rows = 0
           /\ progress[s].progress_percentage = 0
           /\ progress[s].current_step = "Initializing"
      /\ IF progress[s].total_rows > 0
         THEN progress[s].progress_percentage * progress[s].total_rows
                = progress[s].processed_rows * 100
         ELSE progress[s].progress_percentage = 0

C16_Witness ==
  \E s \in Slots :
    /\ progress[s].total_rows = 4 /\ progress[s].processed_rows = 1
    /\ progress[s].progress_percentage = 25
    /\ Len(output_lines[s]) = 2

\* C17: the record holds the processed count and the step of the most
\* recently consumed well-formed progress event (the initial values before
\* the first), lower counts included, and it changes only when the
\* streaming loop consumes such an event or a new call starts.
C17_State ==
  \A s \in Slots :
    progress[s] # NoProgress =>
      IF Consumed(s) = {}
      THEN progress[s] = ExecutionProgress_new(execution_id[s],
                                               progress[s].total_rows)
      ELSE LET e == output_lines[s][LastConsumed(s)] IN
           /\ progress[s].processed_rows = e.processed
           /\ progress[s].current_step = e.step

C17_Step ==
  \A s \in Slots :
    progress'[s] # progress[s] =>
      \/ pc[s] \in {"idle", "returned"}
      \/ /\ output_lines'[s] = Append(output_lines[s],
                                      output_lines'[s][Len(output_lines'[s])])
         /\ LET l == output_lines'[s][Len(output_lines'[s])] IN
            /\ l.json /\ l.type = "progress"
            /\ l.processed >= 0 /\ l.total >= 0 /\ l.step # Absent
            /\ progress'[s].processed_rows = l.processed
            /\ progress'[s].current_step = l.step

C17_EventOrder == [](C17_State) /\ [][C17_Step]_vars

C17_Witness ==
  \E s \in Slots :
    /\ output_lines[s] = << ProgressLine(2, 2, "done"),
                            ProgressLine(1, 2, "half") >>
    /\ progress[s].processed_rows = 1
    /\ progress[s].progress_percentage = 25

\* C18: an ExecutionResult has its error field set exactly when its
\* payload is Error, and unset exactly when its payload is Analysis or
\* Transformation; so for the task's result, so for what execute_script
\* returns.
C18_FailedIffErrorPayload ==
  \A s \in Slots :
    /\ (task[s] = "finished" /\ task_result[s].tag = "ok") =>
         /\ task_result[s].result.type
              \in {"Analysis", "Transformation", "Error"}
         /\ task_result[s].error # "None"
              <=> task_result[s].result.type = "Error"
    /\ (pc[s] = "returned" /\ ret[s].tag = "ok") =>
         (ret[s].error # "None" <=> ret[s].result.type = "Error")

\* C19: when the result line is a transformation line, a line with
\* `changes` only is decoded with the legacy changes present and no
\* unified changes; a line with `unified_changes` only is decoded with
\* those unified changes present, and its result differs from the result
\* of the legacy-only line that has the same preview.
C19_LegacyAndUnifiedDistinct ==
  \A s \in Slots :
    (task[s] = "finished" /\ status[s] = 0
       /\ find_result_line(output_lines[s]) # 0) =>
      LET l == output_lines[s][find_result_line(output_lines[s])]
          r == task_result[s]
      IN l.type = "transformation" =>
           /\ r.tag = "ok" /\ r.result.type = "Transformation"
           /\ (l.changes.some /\ ~l.unified_changes.some) =>
                /\ r.result.changes.some
                /\ ~r.result.unified_changes.some
           /\ (~l.changes.some /\ l.unified_changes.some) =>
                /\ r.result.unified_changes = l.unified_changes
                /\ ResOk(r.result) #
                     parse_result([l EXCEPT !.changes = SomeVec(<< >>),
                                            !.unified_changes = NoneVec])

\* C20: when the child exited 0 and the last line that is JSON with a type
\* other than "progress" is an analysis line with string summary s and
\* details d, execute_script returns the ExecutionResult with the id
\* minted for the run, payload Analysis{summary: s, details: d} and no
\* error.
C20_AnalysisReturnedExactly ==
  \A s \in Slots :
    (pc[s] = "returned" /\ status[s] = 0) =>
      LET L == output_lines[s]
          C == { i \in DOMAIN L : L[i].json /\ L[i].type # "progress" }
      IN \A i \in C :
           ( /\ \A j \in C : j <= i
             /\ L[i].type = "analysis"
             /\ L[i].summary.kind = "string"
             /\ L[i].details # Absent ) =>
             /\ execution_id[s] \in 1..minted
             /\ ret[s] = ExecutionResult(execution_id[s],
                                         Analysis(L[i].summary.text,
                                                  L[i].details),
                                         "None")

C20_Witness ==
  \E s \in Slots :
    /\ pc[s] = "returned" /\ status[s] = 0
    /\ output_lines[s] = << AnalysisLine("string", "2 rows", "{\"rows\":2}"),
                            ProgressLine(1, 2, "half") >>
    /\ ret[s].result = Analysis("2 rows", "{\"rows\":2}")
    /\ ret[s].execution_id = execution_id[s]

\* C21: a call whose text no deny-list pattern matches passes validation;
\* a call whose text some pattern matches returns the error that names
\* the first pattern of the list that matches; and the step that returns
\* the error leaves the registry, the id counter and every other call's
\* state as they were.
C21_State ==
  \A s \in Slots :
    script[s] # NoScript =>
      LET M == { k \in DOMAIN DangerousPatterns :
                   is_match(DangerousPatterns[k], script[s].content) }
      IN IF M = {}
         THEN /\ ~SecurityViolation(ret[s])
              /\ validate_script(script[s].content).tag = "ok"
         ELSE /\ pc[s] = "returned"
              /\ \E k \in M :
                   /\ \A j \in M : k <= j
                   /\ SecurityViolation(ret[s])
                   /\ ret[s].detail = DangerousPatterns[k]
                   /\ validate_script(script[s].content) = ret[s]

C21_Step ==
  \A s \in Slots :
    (s \in scen.slots /\ calls' # calls /\ SecurityViolation(ret'[s])) =>
      /\ UNCHANGED << active_executions, minted, state_lock >>
      /\ \A t \in Slots \ {s} :
           UNCHANGED << progress[t], cancelled[t], temp_file[t], task[t],
                        child[t], ret[t] >>

C21_FirstPatternNamed == [](C21_State) /\ [][C21_Step]_vars

C21_Witness ==
  \E s \in Slots :
    /\ pc[s] = "returned"
    /\ script[s].content = << "print(", "os.popen(" >>
    /\ ret[s].detail = "open\\s*\\("

\* C22: for an id that is not in the registry (never minted, or of a call
\* that took its entry out), get_progress answers None and
\* cancel_execution answers "Execution not found", and a step of either
\* with such an id changes neither the registry nor any progress record
\* nor any cancellation flag.
C22_State ==
  \A id \in Ids :
    id \notin DOMAIN active_executions =>
      /\ get_progress_answer(id) = None
      /\ cancel_execution_answer(id) = "Execution not found"

C22_Step ==
  \A id \in Ids :
    (id \notin DOMAIN active_executions
       /\ (get_progress(id) \/ cancel_execution(id))) =>
      UNCHANGED << active_executions, progress, cancelled >>

C22_UnknownIdNotFound == [](C22_State) /\ [][C22_Step]_vars

C22_Witness ==
  \E s, t \in Slots :
    /\ pc[s] = "returned" /\ execution_id[s] # 0
    /\ execution_id[s] \notin DOMAIN active_executions
    /\ execution_id[t] \in DOMAIN active_executions
    /\ ~cancelled[t]
    /\ cancel_execution_answer(execution_id[s]) = "Execution not found"
    /\ get_progress_answer(execution_id[s]) = None

\* C23: the execute_script command answers a Transformation script sent
\* without approval with "Script execution requires approval" and does
\* nothing else: the text is not validated, no id is minted, no file, task
\* or child exists, the registry and the executor lock are untouched.  For
\* an Analysis script the command does the same with and without approval.
ApprovalRequired == Err("Script execution requires approval", "none")

C23_State ==
  \A s \in Slots :
    ret[s] = ApprovalRequired =>
      /\ script[s].script_type = "Transformation"
      /\ pc[s] = "returned"
      /\ execution_id[s] = 0 /\ task[s] = "none" /\ child[s] = "none"
      /\ temp_file[s] = "none" /\ spawned[s] = 0 /\ ~registered[s]

C23_Step ==
  \A s \in scen.slots, sc \in scen.scripts, rows \in scen.rows,
     file \in scen.files :
    IF sc.script_type = "Transformation"
    THEN cmd_execute_script(s, sc, FALSE, rows, file) =>
           /\ ret'[s] = ApprovalRequired
           /\ UNCHANGED << active_executions, minted, state_lock >>
    ELSE cmd_execute_script(s, sc, FALSE, rows, file)
           <=> cmd_execute_script(s, sc, TRUE, rows, file)

C23_ApprovalGate == [](C23_State) /\ [][C23_Step]_vars

C23_Witness ==
  \E s, t \in Slots :
    /\ ret[s] = ApprovalRequired
    /\ script[s] = EditDenied
    /\ pc[t] = "await" /\ script[t].script_type = "Analysis"

\* C24: after a non-zero exit with a stderr text that holds an
\* IndentationError line and a line with "unexpected indent" or "expected
\* an indented block", the message is the indentation message and it
\* includes such a diagnostic line.
C24_IndentationReported ==
  \A s \in Slots :
    (task[s] = "finished" /\ status[s] > 0 /\ error_text[s] # NoStderr) =>
      LET e == error_text[s]
          D == { j \in DOMAIN e :
                   \/ contains(e[j], "unexpected indent")
                   \/ contains(e[j], "expected an indented block") }
      IN ((\E i \in DOMAIN e : contains(e[i], "IndentationError"))
            /\ D # {}) =>
           /\ task_result[s].result.message.kind = "Python indentation error"
           /\ \E j \in D :
                task_result[s].result.message.detail = << trim(e[j]) >>

\* C25: after a non-zero exit with a stderr text in which no line holds an
\* error name, the message lists the first few non-empty lines of the
\* text, and it is the generic message without details only when the text
\* has no non-empty line.
C25_FallbackSummary ==
  \A s \in Slots :
    (task[s] = "finished" /\ status[s] > 0 /\ error_text[s] # NoStderr) =>
      LET e == error_text[s]
          N == { i \in DOMAIN e : trim(e[i]) # "" }
          m == task_result[s].result.message
      IN (\A i \in DOMAIN e, k \in DOMAIN PriorityOrder :
            ~contains(e[i], PriorityOrder[k])) =>
           IF N = {}
           THEN m = Msg("Script execution failed. Please check the generated script for errors.",
                        << >>)
           ELSE /\ m.kind = "Script execution failed:"
                /\ m.detail # << >>
                /\ \A k \in DOMAIN m.detail :
                     \E i \in N :
                       /\ m.detail[k] = trim(e[i])
                       /\ Cardinality({ j \in N : j < i }) = k - 1

\* C26: once the write to the child's stdin or the read of a stdout line
\* has failed, the run is over: the task is finished with that failure, the
\* exit status was never collected and no result was built, one child was
\* started, no line is consumed and no progress update is applied from
\* then on, and the call returns that failure.
IoFailure(r) == r = Err("io", "stdin") \/ r = Err("io", "stdout")

C26_State ==
  \A s \in Slots :
    IoFailure(task_result[s]) =>
      /\ task[s] = "finished"
      /\ status[s] = -1
      /\ error_text[s] = NoStderr
      /\ results[s] = 0
      /\ spawned[s] = 1
      /\ task_result[s] = Err("io", "stdin") =>
           /\ output_lines[s] = << >>
           /\ progress[s].processed_rows = 0
           /\ progress[s].current_step = "Initializing"
      /\ pc[s] = "returned" => ret[s] = task_result[s]

C26_Step ==
  \A s \in Slots :
    (IoFailure(task_result[s]) /\ execution_id'[s] = execution_id[s]) =>
      /\ output_lines'[s] = output_lines[s]
      /\ progress'[s] = progress[s]
      /\ task_result'[s] = task_result[s]
      /\ spawned'[s] = spawned[s]
      /\ child'[s] = child[s]

C26_IoFailureAborts == [](C26_State) /\ [][C26_Step]_vars

C26_Witness ==
  \E s \in Slots :
    /\ pc[s] = "returned"
    /\ ret[s] = Err("io", "stdout")
    /\ Len(output_lines[s]) = 2
    /\ progress[s].processed_rows = 1

\* C27: the task ends with "Execution cancelled" only in a step of the
\* streaming loop that finds the flag already set, and that step kills the
\* child and leaves the consumed lines and the progress record as they
\* were, the child having a line left to give (it writes at most
\* scen.maxLines lines); a task that reaches end of file ends with the
\* outcome its output and exit status give, whether or not the flag is set
\* by then.
Cancelled == Err("Execution cancelled", "none")

C27_State ==
  \A s \in Slots :
    task_result[s] = Cancelled =>
      /\ cancelled[s]
      /\ task[s] = "finished"
      /\ child[s] = "killed"
      /\ status[s] = -1
      /\ results[s] = 0

C27_Step ==
  \A s \in Slots :
    /\ (task_result'[s] = Cancelled /\ task_result[s] # Cancelled) =>
         /\ cancelled[s]
         /\ task[s] = "streaming"
         /\ Len(output_lines[s]) < scen.maxLines
         /\ output_lines'[s] = output_lines[s]
         /\ progress'[s] = progress[s]
    /\ (child[s] = "running" /\ child'[s] = "exited") =>
         /\ task_result'[s] # Cancelled
         /\ status'[s] = 0 =>
              task_result'[s] = Interpret(progress[s].execution_id,
                                          output_lines[s], 0, NoStderr)
         /\ (status'[s] > 0 /\ error_text'[s] # NoStderr) =>
              task_result'[s] = Interpret(progress[s].execution_id,
                                          output_lines[s], status'[s],
                                          error_text'[s])

C27_CancelAtLineBoundaries == [](C27_State) /\ [][C27_Step]_vars

C27_Witness ==
  \E s \in Slots :
    /\ task_result[s] = Cancelled
    /\ Len(output_lines[s]) = 2
    /\ progress[s].processed_rows = 2
    /\ pc[s] = "returned"

\* C28: no call, task or client ever waits in a cycle for the registry lock,
\* a progress lock or a flag lock: whoever waits for a lock holds only locks
\* that come before it in the order registry, then progress or flag; a lock
\* that is waited for is held by someone who can go on; a client holds a
\* progress lock only between finding the entry and returning the copy,
\* with the registry lock in hand; and a streaming loop that waits to apply
\* a progress update does apply it.
Registry == [lock |-> "registry", n |-> 0]
ProgressLock(s) == [lock |-> "progress", n |-> s]
CancelledLock(s) == [lock |-> "cancelled", n |-> s]
NoLock == [lock |-> "none", n |-> 0]
Locks ==
  { Registry } \cup { ProgressLock(s) : s \in Slots }
    \cup { CancelledLock(s) : s \in Slots }
Procs == Holders \ { Free }

HolderOf(l) ==
  CASE l.lock = "registry"  -> registry_guard
    [] l.lock = "progress"  -> progress_guard[l.n]
    [] l.lock = "cancelled" -> cancelled_guard[l.n]
    [] OTHER                -> Free

Holds(p) == { l \in Locks : HolderOf(l) = p }

Rank(l) == IF l.lock = "registry" THEN 1 ELSE 2

Wants(p) ==
  CASE p.kind = "call" ->
         IF pc[p.n] \in {"insert", "remove"} /\ registry_guard # p
         THEN Registry ELSE NoLock
    [] p.kind = "task" ->
         IF loop[p.n].at = "check" THEN CancelledLock(p.n)
         ELSE IF loop[p.n].at = "update" THEN ProgressLock(p.n)
         ELSE NoLock
    [] p.kind = "client" ->
         IF /\ client[p.n].at = "registry"
            /\ client[p.n].id \in DOMAIN active_executions
         THEN IF client[p.n].op = "get_progress"
              THEN ProgressLock(active_executions[client[p.n].id].progress)
              ELSE CancelledLock(active_executions[client[p.n].id].cancelled)
         ELSE NoLock
    [] OTHER -> NoLock

Blocked(p) == Wants(p) # NoLock /\ HolderOf(Wants(p)) # Free

C28_State ==
  /\ \A p \in Procs :
       Wants(p) # NoLock =>
         \A l \in Holds(p) : Rank(l) < Rank(Wants(p))
  /\ \A p \in Procs :
       Blocked(p) =>
         LET q == HolderOf(Wants(p)) IN
           Blocked(q) => ~Blocked(HolderOf(Wants(q)))
  /\ \A s \in Slots, c \in Clients :
       progress_guard[s] = Client(c) =>
         /\ client[c].op = "get_progress"
         /\ client[c].at = "entry"
         /\ registry_guard = Client(c)

C28_NoDeadlock ==
  /\ [](C28_State)
  /\ \A s \in Slots : (loop[s].at = "update") ~> (loop[s].at = "read")

C28_Witness ==
  \E s, t \in Slots, c \in Clients :
    /\ s # t
    /\ loop[s].at = "update"
    /\ progress_guard[s] = Client(c)
    /\ Wants(Call(t)) = Registry

\* C29: the registry changes only in a step of a call that holds its lock,
\* and the change is that call's own entry put in or taken out, every other
\* entry staying as it was, so an entry put in stays until its own call
\* takes it out; a cancel_execution that returns has either found the entry
\* of its id, set the flag of that execution alone and answered Ok, or found
\* no entry, changed nothing and answered "Execution not found".
C29_State ==
  /\ \A s \in Slots :
       (pc[s] = "remove" /\ registered[s]) =>
         /\ execution_id[s] \in DOMAIN active_executions
         /\ active_executions[execution_id[s]] =
              [handle |-> s, progress |-> s, cancelled |-> s]
  /\ \A k \in DOMAIN active_executions :
       \E s \in Slots : execution_id[s] = k /\ pc[s] = "remove"

C29_Step ==
  /\ active_executions' # active_executions =>
       \E s \in Slots :
         /\ registry_guard = Call(s)
         /\ \/ DOMAIN active_executions' =
                 DOMAIN active_executions \cup { execution_id[s] }
            \/ DOMAIN active_executions' =
                 DOMAIN active_executions \ { execution_id[s] }
         /\ \A k \in (DOMAIN active_executions \cap DOMAIN active_executions')
                       \ { execution_id[s] } :
              active_executions'[k] = active_executions[k]
  /\ \A c \in Clients :
       (/\ client[c].op = "cancel_execution"
        /\ client[c].at # "idle"
        /\ client'[c].at = "idle") =>
         /\ registry_guard = Client(c)
         /\ active_executions' = active_executions
         /\ \/ /\ client'[c].answer.text = "Ok"
               /\ \E t \in Slots :
                    /\ execution_id[t] = client[c].id
                    /\ pc[t] = "remove"
                    /\ cancelled'[t]
                    /\ \A u \in Slots \ { t } : cancelled'[u] = cancelled[u]
            \/ /\ client'[c].answer.text = "Execution not found"
               /\ client[c].id \notin DOMAIN active_executions
               /\ cancelled' = cancelled

C29_RegistrySerialized == [](C29_State) /\ [][C29_Step]_vars

C29_Witness ==
  \E s, t \in Slots, c \in Clients :
    /\ s # t
    /\ pc[s] = "await" /\ pc[t] = "remove"
    /\ execution_id[t] \in DOMAIN active_executions
    /\ client[c].op = "cancel_execution"
    /\ client[c].id = execution_id[s]
    /\ registry_guard = Client(c)
    /\ Wants(Call(t)) = Registry
    /\ cancelled[s] = FALSE /\ cancelled[t] = FALSE

\* C30: at the command layer the registry is empty whenever the
\* Mutex<ScriptExecutor> is free, so a get_script_progress or a
\* cancel_script_execution command, which runs only then, finds no entry:
\* the first answers the error "Execution not found", the second answers
\* success = false, for every id, and neither changes a flag or the
\* registry.
C30_State ==
  state_lock = 0 =>
    /\ DOMAIN active_executions = { }
    /\ \A id \in Ids :
         /\ cmd_get_script_progress_answer(id).tag = "err"
         /\ cmd_get_script_progress_answer(id).msg = "Execution not found"
         /\ cmd_cancel_script_execution_answer(id).success = FALSE

C30_Step ==
  /\ \A s \in Slots :
       (registered'[s] /\ ~registered[s]) => state_lock = s
  /\ \A s \in Slots :
       (execution_id[s] \in DOMAIN active_executions
          /\ execution_id[s] \notin DOMAIN active_executions') =>
         state_lock = s
  /\ \A s \in Slots :
       (state_lock = s /\ state_lock' = 0) =>
         (pc'[s] = "returned" /\ DOMAIN active_executions' = { })
  /\ state_lock = 0 => cancelled' \in { cancelled } \cup
                         { [cancelled EXCEPT ![s] = FALSE] : s \in Slots }

C30_CommandsNeverFindEntry == [](C30_State) /\ [][C30_Step]_vars

C30_Witness ==
  \E s, t \in Slots :
    /\ state_lock = 0
    /\ pc[s] = "returned" /\ ret[s].tag = "ok" /\ registered[s]
    /\ pc[t] = "returned" /\ ret[t].tag = "err" /\ registered[t]
    /\ cmd_get_script_progress_answer(execution_id[s]).msg
         = "Execution not found"
    /\ ~cmd_cancel_script_execution_answer(execution_id[t]).success

\* C31: the runner never waits for a line of stdout, nor for room to write
\* the envelope to stdin, while its child waits to write to a full stderr
\* or stdout pipe.
RunnerWaits(s) ==
  /\ python[s].up
  /\ \/ task[s] = "streaming" /\ pipe[s].stdout = 0
     \/ task[s] = "stdin" /\ pipe[s].stdin = PipeCap

ChildWaits(s) ==
  /\ python[s].up
  /\ python[s].at <= Len(python[s].code)
  /\ LET op == python[s].code[python[s].at] IN
       \/ op = "err" /\ pipe[s].stderr = PipeCap
       \/ op = "out" /\ pipe[s].stdout = PipeCap

C31_NoPipeDeadlock ==
  \A s \in Slots : ~(RunnerWaits(s) /\ ChildWaits(s))

\* C32: once execute_script has returned, the child it started has exited
\* or has been killed.
C32_NoChildLeftRunning ==
  \A s \in Slots :
    (pc[s] = "returned" /\ spawned[s] = 1) => child[s] \in {"exited", "killed"}

\* C33: every script made by generate_script or fix_script holds a match of
\* the deny list, so a call of execute_script with it returns the security
\* error: no id is minted, no task is spawned and no child is started, and
\* the call never gets past validation.
C33_GeneratedNeverRuns ==
  \A s \in Slots :
    /\ script[s] # NoScript => Dangerous(script[s].content)
    /\ pc[s] \in {"idle", "returned"}
    /\ pc[s] = "returned" =>
         /\ SecurityViolation(ret[s])
         /\ execution_id[s] = 0
         /\ task[s] = "none"
         /\ spawned[s] = 0
         /\ child[s] = "none"

C33_Witness ==
  \E s \in Slots :
    /\ pc[s] = "returned"
    /\ script[s].content =
         wrap_in_template(<< "import pandas" >>, << "show" >>, "Analysis")
    /\ SecurityViolation(ret[s])
    /\ ret[s].detail = "import\\s+sys"

\* C34: a progress update changes only processed_rows, current_step,
\* progress_percentage and last_updated of its own record; while a call
\* runs, execution_id, total_rows and started_at of its record keep the
\* values given at creation, the total of an event is never stored, and the
\* step that consumes a progress event leaves the registry and every
\* cancellation flag as they were.
C34_State ==
  \A s \in Slots :
    progress[s] # NoProgress =>
      /\ progress[s].execution_id = execution_id[s]
      /\ progress[s].started_at = 0
      /\ progress[s].estimated_remaining_seconds = "None"
      /\ progress[s].total_rows \in scen.rows

C34_Step ==
  \A s \in Slots :
    pc[s] \notin {"idle", "returned"} /\ progress[s] # NoProgress =>
      /\ progress'[s].execution_id = progress[s].execution_id
      /\ progress'[s].total_rows = progress[s].total_rows
      /\ progress'[s].started_at = progress[s].started_at
      /\ progress'[s] # progress[s] =>
           /\ progress'[s] =
                [progress[s] EXCEPT
                   !.processed_rows = progress'[s].processed_rows,
                   !.current_step = progress'[s].current_step,
                   !.progress_percentage = progress'[s].progress_percentage,
                   !.last_updated = progress'[s].last_updated]
           /\ progress'[s].last_updated > progress[s].last_updated
           /\ \A t \in Slots \ { s } : progress'[t] = progress[t]
           /\ active_executions' = active_executions
           /\ cancelled' = cancelled

C34_UpdateFrame == [](C34_State) /\ [][C34_Step]_vars

C34_Witness ==
  \E s \in Slots :
    /\ Consumed(s) # {}
    /\ output_lines[s][LastConsumed(s)].total = 2
    /\ progress[s].total_rows = 4
    /\ progress[s].processed_rows = 2
    /\ progress[s].progress_percentage = 50
    /\ progress[s].last_updated = 2
    /\ progress[s].started_at = 0
    /\ progress[s].execution_id = execution_id[s]
    /\ ~cancelled[s]
    /\ execution_id[s] \in DOMAIN active_executions

\* a line typed "progress" without a valid processed, total or step
InvalidProgress(l) ==
  /\ l.json /\ l.type = "progress"
  /\ ~IsProgressEvent(l)

\* C35: the step that consumes a line typed "progress" lacking a valid
\* processed, total or step leaves the progress record as it was and sends
\* no event; such a line is never the line the result is read from, and a
\* successful run whose lines are all typed "progress" has no result.
C35_State ==
  \A s \in Slots :
    /\ \A i \in DOMAIN output_lines[s] :
         InvalidProgress(output_lines[s][i]) =>
           /\ ~IsResultCandidate(output_lines[s][i])
           /\ find_result_line(output_lines[s]) # i
    /\ Len(emitted[s]) = Cardinality(Consumed(s))
    /\ ( /\ task[s] = "finished" /\ status[s] = 0
         /\ \A i \in DOMAIN output_lines[s] :
              output_lines[s][i].json /\ output_lines[s][i].type = "progress" )
       => task_result[s] = Err("No result found in script output", "none")

C35_Step ==
  \A s \in Slots :
    ( /\ Len(output_lines'[s]) = Len(output_lines[s]) + 1
      /\ InvalidProgress(output_lines'[s][Len(output_lines'[s])]) )
    => /\ progress'[s] = progress[s]
       /\ emitted'[s] = emitted[s]

C35_InvalidProgressLine == [](C35_State) /\ [][C35_Step]_vars

C35_Witness ==
  \E s \in Slots :
    /\ pc[s] = "returned"
    /\ output_lines[s] = << ProgressLine(1, 2, "half"),
                            AnalysisLine("string", "ok", "{}"),
                            ProgressLine(2, 2, Absent) >>
    /\ progress[s].processed_rows = 1
    /\ progress[s].current_step = "half"
    /\ Len(emitted[s]) = 1
    /\ emitted[s][1].currentStep = "half"
    /\ ret[s].tag = "ok"
    /\ find_result_line(output_lines[s]) = 2



=============================================================================
